---- MODULE Spec2Model ----
(***************************************************************************)
(* State-machine model of the news-recommendation backend.                 *)
(*                                                                         *)
(*   Spec         authentication: register, login, refresh, logout         *)
(*   SpecAccount  registration, login and account deletion                 *)
(*   SpecSlug     create_news and delete_news with slug generation         *)
(*   SpecLike     toggle_like and the tracking path that writes like rows  *)
(*   SpecSession  the routes guarded by the required-user dependency       *)
(*                                                                         *)
(* Time is counted in whole seconds, the resolution of a JWT expiry and    *)
(* of the slug timestamp; operations between two Tick steps share a second.*)
(***************************************************************************)
EXTENDS Integers, Sequences, FiniteSets, Bags, TLC

\* ---------------------------------------------------------------- bounds
MaxNow == 3
MaxIssued == 2
MaxUserId == 2
MaxNewsId == 2
MaxBehaviors == 4
MaxHotScore == 4
MaxProfileId == 2

\* ------------------------------------------------------ program constants
\* lifetimes, scaled: one model second stands for the configured unit
ACCESS_TOKEN_EXPIRE == 1
REFRESH_TOKEN_EXPIRE == 2

Emails == {"a@x", "b@x"}
Usernames == {"alice", "bob"}
\* "Pw73" stands for a password of more than 72 bytes, "Hex64" for the 64
\* hexadecimal digits of its SHA-256 digest
LongPasswords == {"Pw73"}
Passwords == {"Pw1", "Pw2", "Pw73", "Hex64"}
\* passwords with a digit and an upper-case letter, as the schemas demand
ValidPasswords == Passwords \ {"Hex64"}
RegisterPasswords == {"Pw1", "Pw73"}

None == "None"

VARIABLES
    now,            \* wall clock, in ticks
    users,          \* rows of table users
    nextUserId,     \* next primary key of table users
    refreshStore,   \* cache: refresh_token:{email} -> [val, expireAt] or absent
    blacklist,      \* cache: blacklist:{token} entries [token, expireAt]
    refreshLog,     \* history: refresh tokens returned by create_refresh_token, per email, in order
    accessIssued,   \* history: access tokens returned by create_access_token
    resp,           \* the last request and its response
    news,           \* rows of table news
    nextNewsId,     \* next primary key of table news
    behaviors,      \* rows of table user_behaviors: a bag of [user_id, news_id, behavior_type]
    newsStats,      \* cache: hash news_stats:{id}, field like_count
    hotNews,        \* cache: sorted set hot_news_24h, a bag of news ids (copies = score)
    lastToggle,     \* history: the result of each user's latest toggle_like per article
    profiles,       \* rows of table user_profiles
    hotCache,       \* cache: hot_news:{category_id}:{limit} -> [ids, expireAt] or absent, per limit
    lastRec,        \* history: the latest get_recommendations call and the list it returned
    recentBehaviors,\* cache: list user_recent_behaviors:{user_id}, newest first
    behaviorCounts, \* cache: hash user_behavior_counts:{user_id}, a bag of [user_id, behavior_type]
    lastBatch,      \* history: the latest track_behaviors_batch call and its outcome
    chosenPassword, \* history: the password each email's user last set, None if none
    lastChange,     \* history: the latest change_password call and its return value
    preferences,    \* rows of table user_preferences: [profile_id, preference_key]
    nextProfileId,  \* next primary key of table user_profiles
    weighed,        \* a UserBehavior object and the engagement_weight read from it
    trendingCache,  \* cache: trending_news:{category_id}:{time_range}:{limit} -> [ids, expireAt] or absent
    storeVersion,   \* history: the number of commits to table news by the split writes
    completedVersion, \* history: storeVersion as of the last write that has returned
    writer,         \* the position of a create_news, update_news or delete_news call
    reader,         \* the position and the locals of a get_trending_news call
    lastTrending,   \* history: the list that the latest get_trending_news call returned
    diversity,      \* a scored candidate list and what _apply_diversity_reranking returned for it
    lastLatest,     \* history: the latest GET /news/latest request and its response
    deletedTokens,  \* history: the tokens issued to a user before the user was deleted
    calls           \* the position and the locals of the toggle_like and toggle_collect calls in progress

vars == <<now, users, nextUserId, refreshStore, blacklist, refreshLog,
          accessIssued, resp, news, nextNewsId, behaviors, newsStats, hotNews,
          lastToggle, profiles, hotCache, lastRec, recentBehaviors, behaviorCounts,
          lastBatch, chosenPassword, lastChange, preferences, nextProfileId,
          weighed, trendingCache, storeVersion, completedVersion, writer, reader,
          lastTrending, diversity, lastLatest, deletedTokens, calls>>

authVars == <<users, nextUserId, refreshStore, blacklist, refreshLog, accessIssued>>
newsVars == <<news, nextNewsId, behaviors, newsStats, hotNews, lastToggle>>
recVars == <<profiles, hotCache, lastRec>>
trackVars == <<recentBehaviors, behaviorCounts, lastBatch>>
pwVars == <<chosenPassword, lastChange>>
\* the tables and keys that no action of the accounts, sessions and news leaves
\* changed, apart from the owned rows of a deleted user
trendProc == <<storeVersion, completedVersion, writer, reader, lastTrending>>
trendVars == <<trendingCache, trendProc>>
\* the calls modelled on their own, and the history of account deletion
asideVars == <<weighed, diversity, lastLatest, deletedTokens, calls>>
quietVars == <<hotCache, lastRec, trackVars, pwVars, nextProfileId, asideVars, trendProc>>
idleVars == <<quietVars, trendingCache>>
otherVars == <<profiles, preferences, idleVars>>

\* ------------------------------------------------------------------ time
NowSeconds == now

\* ---------------------------------------------------------------- tokens
\* A token string is determined by its claim set and its signature.
NoToken == [sub |-> None, exp |-> 0, type |-> "none", sig |-> "none"]
MalformedToken == [sub |-> None, exp |-> 0, type |-> "access", sig |-> "bad"]

\* _create_token_internal: exp = utcnow() + delta, encoded in whole seconds
CreateTokenInternal(email, expires_delta, token_type) ==
    [sub |-> email, exp |-> NowSeconds + expires_delta, type |-> token_type, sig |-> "ok"]

CreateAccessToken(email) == CreateTokenInternal(email, ACCESS_TOKEN_EXPIRE, "access")

\* the token create_refresh_token builds (the store write is in the actions)
NewRefreshToken(email) == CreateTokenInternal(email, REFRESH_TOKEN_EXPIRE, "refresh")

\* verify_token: decode (signature, expiry), then subject and type
VerifyToken(token, token_type) ==
    IF token.sig # "ok" THEN None
    ELSE IF token.exp < NowSeconds THEN None
    ELSE IF token.sub = None \/ token.type # token_type THEN None
    ELSE token.sub

\* ----------------------------------------------------------------- cache
NoEntry == [val |-> NoToken, expireAt |-> 0]

\* GET refresh_token:{email}: absent once the TTL has run out
RedisGetRefresh(email) ==
    IF refreshStore[email] # NoEntry /\ now < refreshStore[email].expireAt
    THEN refreshStore[email].val
    ELSE NoToken

\* SETEX refresh_token:{email} ttl token
RedisSetRefresh(store, email, token) ==
    [store EXCEPT ![email] =
        [val |-> token, expireAt |-> now + REFRESH_TOKEN_EXPIRE]]

\* faulty variant: the signature check alone, without the comparison with the stored token
VerifyRefreshTokenUnstored(refresh_token) == VerifyToken(refresh_token, "refresh")

\* verify_refresh_token
VerifyRefreshToken(refresh_token) ==
    LET email == VerifyToken(refresh_token, "refresh") IN
    IF email = None THEN None
    ELSE IF RedisGetRefresh(email) # refresh_token THEN None
    ELSE email

\* is_token_blacklisted: EXISTS blacklist:{token}
\* faulty variant: a token of a logged-out user counts as blacklisted
IsTokenBlacklistedOrLoggedOut(token) ==
    \/ \E b \in blacklist : b.token = token /\ now < b.expireAt
    \/ token.sub \in Emails /\ refreshStore[token.sub] = NoEntry

IsTokenBlacklisted(token) ==
    \E b \in blacklist : b.token = token /\ now < b.expireAt

\* ----------------------------------------------------------------- users
GetUserByEmail(email) == {u \in users : u.email = email}
\* faulty variant: the username lookup finds nothing
GetUserByUsernameBlind(username) == {}
GetUserByUsername(username) == {u \in users : u.username = username}

\* hashlib.sha256(password_bytes).hexdigest()
Sha256Hex(password) == IF password = "Pw73" THEN "Hex64" ELSE "HexOther"

\* the bytes handed to bcrypt: passwords of more than 72 bytes are pre-hashed
PasswordBytes(password) ==
    IF password \in LongPasswords THEN Sha256Hex(password) ELSE password

\* get_password_hash / verify_password (bcrypt; checkpw recomputes the hash
\* with the salt of the stored one, so the salt decides no comparison)
GetPasswordHash(password) == [alg |-> "bcrypt", of |-> PasswordBytes(password)]
VerifyPassword(plain_password, hashed_password) ==
    hashed_password = GetPasswordHash(plain_password)

\* authenticate_user: the set holding the authenticated user, empty if none
AuthenticateUser(email, password) ==
    {u \in GetUserByEmail(email) : VerifyPassword(password, u.hashed_password)}

\* AuthService.get_current_user
GetCurrentUserFromToken(token) ==
    LET email == VerifyToken(token, "access") IN
    IF email = None THEN {} ELSE GetUserByEmail(email)

\* faulty variant: the blacklist is not consulted
ValidateUserSessionUnlisted(token) ==
    {u \in GetCurrentUserFromToken(token) : u.is_active}

\* validate_user_session
ValidateUserSession(token) ==
    IF IsTokenBlacklisted(token) THEN {}
    ELSE {u \in GetCurrentUserFromToken(token) : u.is_active}

\* dependencies.get_current_user: the user, or empty for a 401
GetCurrentUser(token) ==
    IF token = NoToken THEN {} ELSE ValidateUserSession(token)

\* ------------------------------------------------------------- responses
\* status: the HTTP status (0: a service call that returned, no request pending);
\* access, refresh: the token pair of the response body;
\* user_id, news_id, liked, like_count: the caller and the result of an interaction
Resp(status, access, refresh) ==
    [status |-> status, access |-> access, refresh |-> refresh,
     user_id |-> 0, news_id |-> 0, liked |-> FALSE, like_count |-> -1]

InteractionResp(status, user_id, news_id, liked, like_count) ==
    [status |-> status, access |-> NoToken, refresh |-> NoToken,
     user_id |-> user_id, news_id |-> news_id, liked |-> liked, like_count |-> like_count]

Idle == Resp(0, NoToken, NoToken)

\* tokens a client can present: those handed out, or strings with no valid signature
RefreshIssued == UNION {{refreshLog[e][i] : i \in 1..Len(refreshLog[e])} : e \in Emails}
TotalIssued == Len(refreshLog["a@x"]) + Len(refreshLog["b@x"])
Presentable == accessIssued \cup RefreshIssued \cup {MalformedToken}

\* ------------------------------------------- recommendation: cache keys
\* limits passed to _recall_hot_news: cold start, warm, content fallback
HOT_LIMIT_COLD == 60
HOT_LIMIT_WARM == 20
CONTENT_LIMIT == 40
HotLimits == {HOT_LIMIT_COLD, HOT_LIMIT_WARM, CONTENT_LIMIT}
\* the category_id of a request: absent (as falsy as 0 in `if category_id:`),
\* or one of the two categories
NoCategory == 0
RequestCategories == {NoCategory, 1, 2}
HotKeys == RequestCategories \X HotLimits
NoList == [ids |-> <<>>, expireAt |-> -1]
NoRec == [user_id |-> 0, page |-> 0, page_size |-> 0, category_id |-> NoCategory,
          diversify |-> FALSE,
          at |-> -1, cached |-> FALSE, is_cold_start |-> FALSE, items |-> <<>>,
          candidates |-> <<>>]

\* a row of user_profiles; confidence and threshold in tenths
ProfileRow(id, user_id, profile_confidence, preferred_categories) ==
    [id |-> id, user_id |-> user_id, profile_confidence |-> profile_confidence,
     preferred_categories |-> preferred_categories, quality_threshold |-> 5]

InitRecIdle ==
    /\ profiles = {}
    /\ preferences = {}
    /\ nextProfileId = 1
    /\ hotCache = [k \in HotKeys |-> NoList]
    /\ lastRec = NoRec

\* ------------------------------------------------- tracking: cache keys
NoBatch == [user_id |-> 0, behaviors |-> <<>>, raised |-> FALSE, success |-> FALSE,
            total_processed |-> 0, total_failed |-> 0, failed_indices |-> <<>>]

InitTrackIdle ==
    /\ recentBehaviors = [u \in 1..MaxUserId |-> <<>>]
    /\ behaviorCounts = EmptyBag
    /\ lastBatch = NoBatch

\* --------------------------------------------------- passwords: history
NoChange == [email |-> None, current_password |-> None, new_password |-> None,
             returned |-> FALSE]

\* every user of the initial store has the password of the fixtures
InitPwIdle ==
    /\ chosenPassword = [e \in Emails |-> IF \E u \in users : u.email = e THEN "Pw1" ELSE None]
    /\ lastChange = NoChange

\* -------------------------------------------------- engagement: no object
\* a column that holds NULL reads as None; numbers are never negative
NoNumber == -1
NoWeight == -1
NoBehavior == [behavior_type |-> None, duration |-> NoNumber, read_percentage |-> NoNumber]

Callers == {1, 2}
MaxRaceRows == 2
NoCall == [pc |-> "idle", op |-> None, news_id |-> 0, user_id |-> 0, existing |-> FALSE,
           gone |-> FALSE, like_count |-> 0]
NoDiversity == [candidates |-> <<>>, scored_candidates |-> <<>>, reranked |-> <<>>,
                returned |-> FALSE]
NoLatest == [page |-> 0, limit |-> 0, category |-> None, items |-> <<>>, total |-> 0]

InitWeightIdle ==
    /\ weighed = [behavior |-> NoBehavior, weight |-> NoWeight]
    /\ diversity = NoDiversity
    /\ lastLatest = NoLatest
    /\ deletedTokens = {}
    /\ calls = [c \in Callers |-> NoCall]

\* ----------------------------------------------- trending: cache, calls
\* ver: the storeVersion that the cached list was computed from (history)
NoTrending == [ids |-> <<>>, expireAt |-> -1, ver |-> 0]
ReaderIdle == [pc |-> "idle", ids |-> <<>>, ver |-> 0, started |-> 0]
WriterIdle == [pc |-> "idle", op |-> None, news_id |-> 0, found |-> FALSE]

InitTrendIdle ==
    /\ trendingCache = NoTrending
    /\ storeVersion = 0
    /\ completedVersion = 0
    /\ writer = WriterIdle
    /\ reader = ReaderIdle
    /\ lastTrending = [ids |-> <<>>, ver |-> 0, started |-> 0, cached |-> FALSE]

InitOther == InitRecIdle /\ InitTrackIdle /\ InitPwIdle /\ InitWeightIdle /\ InitTrendIdle

\* ------------------------------------------------------------------ Init
InitAuth ==
    /\ now = 0
    /\ users = {}
    /\ nextUserId = 1
    /\ refreshStore = [e \in Emails |-> NoEntry]
    /\ blacklist = {}
    /\ refreshLog = [e \in Emails |-> <<>>]
    /\ accessIssued = {}
    /\ resp = Idle

InitNewsEmpty ==
    /\ news = {}
    /\ nextNewsId = 1
    /\ behaviors = EmptyBag
    /\ newsStats = {}
    /\ hotNews = EmptyBag
    /\ lastToggle = [k \in (1..MaxUserId) \X (1..MaxNewsId) |-> "none"]

Init == InitAuth /\ InitNewsEmpty /\ InitOther

\* --------------------------------------------------------------- actions
Tick ==
    /\ now < MaxNow
    /\ now' = now + 1
    /\ resp' = Idle
    /\ UNCHANGED <<otherVars, authVars, newsVars>>

\* POST /auth/register (register + AuthService.create_user)
Register(email, username, password) ==
    /\ IF GetUserByEmail(email) # {}
       THEN /\ resp' = Resp(400, NoToken, NoToken)
            /\ UNCHANGED <<users, nextUserId, chosenPassword>>
       ELSE IF GetUserByUsername(username) # {}
       THEN /\ resp' = Resp(400, NoToken, NoToken)
            /\ UNCHANGED <<users, nextUserId, chosenPassword>>
       ELSE /\ nextUserId <= MaxUserId
            /\ users' = users \cup {[id |-> nextUserId, email |-> email,
                                     username |-> username,
                                     hashed_password |-> GetPasswordHash(password),
                                     is_active |-> TRUE, last_login_at |-> NoNumber,
                                     login_count |-> 0]}
            /\ nextUserId' = nextUserId + 1
            /\ chosenPassword' = [chosenPassword EXCEPT ![email] = password]
            /\ resp' = Resp(201, NoToken, NoToken)
    /\ UNCHANGED <<recVars, preferences, nextProfileId, trackVars, lastChange, asideVars, trendVars, now,
                   refreshStore, blacklist, refreshLog, accessIssued, newsVars>>

\* the state change of create_access_token + create_refresh_token for email
IssuePair(email) ==
    /\ TotalIssued < MaxIssued
    /\ accessIssued' = accessIssued \cup {CreateAccessToken(email)}
    /\ refreshStore' = RedisSetRefresh(refreshStore, email, NewRefreshToken(email))
    /\ refreshLog' = [refreshLog EXCEPT ![email] = Append(@, NewRefreshToken(email))]
    /\ resp' = Resp(200, CreateAccessToken(email), NewRefreshToken(email))

\* AuthService.update_last_login: the users row after the call (no endpoint
\* and no service calls it)
UpdateLastLogin(user) ==
    (users \ {user}) \cup {[user EXCEPT !.last_login_at = NowSeconds, !.login_count = @ + 1]}

\* POST /auth/login
Login(email, password) ==
    /\ IF AuthenticateUser(email, password) = {}
       THEN /\ resp' = Resp(401, NoToken, NoToken)
            /\ UNCHANGED <<refreshStore, refreshLog, accessIssued>>
       ELSE IssuePair(email)
    /\ UNCHANGED <<otherVars, now, users, nextUserId, blacklist, newsVars>>

\* POST /auth/refresh: token_data.email is read before any check, so an
\* absent token_data raises AttributeError, which the global handler turns to 500
RefreshToken(refresh_token) ==
    /\ LET token_data == VerifyRefreshToken(refresh_token) IN
       IF token_data = None
       THEN /\ resp' = Resp(500, NoToken, NoToken)
            /\ UNCHANGED <<refreshStore, refreshLog, accessIssued>>
       ELSE IF GetUserByEmail(token_data) = {}
       THEN /\ resp' = Resp(401, NoToken, NoToken)
            /\ UNCHANGED <<refreshStore, refreshLog, accessIssued>>
       ELSE IssuePair(token_data)
    /\ UNCHANGED <<otherVars, now, users, nextUserId, blacklist, newsVars>>

\* faulty variant: the stored refresh token is kept
LogoutUserKeep(store, email) == store

\* logout_user: DEL refresh_token:{email}
LogoutUser(store, email) == [store EXCEPT ![email] = NoEntry]

\* POST /auth/logout
Logout(token) ==
    /\ IF GetCurrentUser(token) = {}
       THEN /\ resp' = Resp(401, NoToken, NoToken)
            /\ UNCHANGED refreshStore
       ELSE /\ \E current_user \in GetCurrentUser(token) :
                 refreshStore' = LogoutUser(refreshStore, current_user.email)
            /\ resp' = Resp(200, NoToken, NoToken)
    /\ UNCHANGED <<otherVars, now, users, nextUserId, blacklist, refreshLog, accessIssued, newsVars>>

\* AuthService.change_password
ChangePassword(user, current_password, new_password) ==
    /\ user \in users
    /\ IF ~ VerifyPassword(current_password, user.hashed_password)
       THEN /\ lastChange' = [email |-> user.email, current_password |-> current_password,
                               new_password |-> new_password, returned |-> FALSE]
            /\ UNCHANGED <<users, refreshStore, chosenPassword>>
       ELSE /\ users' = (users \ {user}) \cup
                         {[user EXCEPT !.hashed_password = GetPasswordHash(new_password)]}
            /\ refreshStore' = LogoutUser(refreshStore, user.email)
            /\ chosenPassword' = [chosenPassword EXCEPT ![user.email] = new_password]
            /\ lastChange' = [email |-> user.email, current_password |-> current_password,
                               new_password |-> new_password, returned |-> TRUE]
    /\ resp' = Idle
    /\ UNCHANGED <<recVars, preferences, nextProfileId, trackVars, asideVars, trendVars, now, nextUserId,
                   blacklist, refreshLog, accessIssued, newsVars>>

\* GET /users/me
GetCurrentUserInfo(token) ==
    /\ IF GetCurrentUser(token) = {}
       THEN resp' = Resp(401, NoToken, NoToken)
       ELSE resp' = Resp(200, NoToken, NoToken)
    /\ UNCHANGED <<otherVars, now, authVars, newsVars>>

\* dependencies.get_current_active_user, resolved for a request: its
\* sub-dependency get_current_user answers 401 first; the user it hands over is
\* checked for is_active
RequireActiveUser(token) ==
    /\ IF GetCurrentUser(token) = {}
       THEN resp' = Resp(401, NoToken, NoToken)
       ELSE IF \E current_user \in GetCurrentUser(token) : ~ current_user.is_active
       THEN resp' = Resp(400, NoToken, NoToken)
       ELSE resp' = Resp(200, NoToken, NoToken)
    /\ UNCHANGED <<otherVars, now, authVars, newsVars>>

\* faulty variant: a soft delete, the row stays with is_active cleared
DeleteUserSoft(user) == (users \ {user}) \cup {[user EXCEPT !.is_active = FALSE]}

\* UserService.delete_user: the row goes (db.delete + commit) ...
DeleteUser(user) == users \ {user}
\* ... and with it the rows it owns (cascade="all, delete-orphan"): its
\* behaviors, its profile, and the preferences of that profile
DeleteUserRows(user_id) ==
    [b \in {r \in DOMAIN behaviors : r.user_id # user_id} |-> behaviors[b]]
\* faulty variant: the profile of a deleted user stays
DeleteUserProfileKeep(user_id) == profiles
DeleteUserProfile(user_id) == {p \in profiles : p.user_id # user_id}
DeleteProfilePreferences(user_id) ==
    {q \in preferences : \E p \in DeleteUserProfile(user_id) : p.id = q.profile_id}

\* the tokens issued so far to the user of an email
TokensOf(email) ==
    {t \in accessIssued : t.sub = email}
    \cup {refreshLog[email][i] : i \in 1..Len(refreshLog[email])}

\* db.delete(user) + commit
DeleteUserCascade(user) ==
    /\ users' = DeleteUser(user)
    /\ deletedTokens' = deletedTokens \cup TokensOf(user.email)
    /\ behaviors' = DeleteUserRows(user.id)
    /\ profiles' = DeleteUserProfile(user.id)
    /\ preferences' = DeleteProfilePreferences(user.id)

\* DELETE /users/me
DeleteAccount(token) ==
    /\ IF GetCurrentUser(token) = {}
       THEN /\ resp' = Resp(401, NoToken, NoToken)
            /\ UNCHANGED <<users, behaviors, profiles, preferences, deletedTokens>>
       ELSE /\ \E current_user \in GetCurrentUser(token) : DeleteUserCascade(current_user)
            /\ resp' = Resp(200, NoToken, NoToken)
    /\ UNCHANGED <<hotCache, lastRec, trackVars, pwVars, nextProfileId, weighed, diversity,
                   lastLatest, calls, trendVars, now, nextUserId, refreshStore, blacklist, refreshLog, accessIssued,
                   news, nextNewsId, newsStats, hotNews, lastToggle>>

\* UserService.delete_user
DeleteUserById(user_id) ==
    /\ IF \E u \in users : u.id = user_id
       THEN \E u \in users : u.id = user_id /\ DeleteUserCascade(u)
       ELSE UNCHANGED <<users, behaviors, profiles, preferences, deletedTokens>>
    /\ resp' = Idle
    /\ UNCHANGED <<hotCache, lastRec, trackVars, pwVars, nextProfileId, weighed, diversity,
                   lastLatest, calls, trendVars, now, nextUserId, refreshStore, blacklist, refreshLog, accessIssued,
                   news, nextNewsId, newsStats, hotNews, lastToggle>>

\* UserService.get_user_profile
GetUserProfile(user_id) == {p \in profiles : p.user_id = user_id}

\* the state change of create_user_profile: the existing row is returned, or
\* a row is inserted; the insert of a row for an absent user violates the
\* foreign key and raises
CreateUserProfileBody(user_id) ==
    IF GetUserProfile(user_id) # {}
    THEN UNCHANGED <<profiles, nextProfileId>>
    ELSE IF ~ \E u \in users : u.id = user_id
    THEN UNCHANGED <<profiles, nextProfileId>>
    ELSE /\ nextProfileId <= MaxProfileId
         /\ profiles' = profiles \cup {ProfileRow(nextProfileId, user_id, 0, {})}
         /\ nextProfileId' = nextProfileId + 1

\* UserService.create_user_profile
CreateUserProfile(user_id) ==
    /\ CreateUserProfileBody(user_id)
    /\ resp' = Idle
    /\ UNCHANGED <<now, authVars, newsVars, preferences, hotCache, lastRec, trackVars, pwVars,
                   asideVars, trendVars>>

\* UserService.create_user_preference: the profile is fetched or created, and
\* the preference of that key is updated or inserted
CreateUserPreference(user_id, preference_key) ==
    /\ CreateUserProfileBody(user_id)
    /\ preferences' = preferences \cup
          {[profile_id |-> p.id, preference_key |-> preference_key] :
              p \in {q \in profiles' : q.user_id = user_id}}
    /\ resp' = Idle
    /\ UNCHANGED <<now, authVars, newsVars, hotCache, lastRec, trackVars, pwVars, asideVars, trendVars>>

\* the rows of user_profiles after "get the profile, create it if absent"
ProfilesWithProfileOf(user_id) ==
    IF GetUserProfile(user_id) # {} \/ ~ \E u \in users : u.id = user_id
    THEN profiles
    ELSE profiles \cup {ProfileRow(nextProfileId, user_id, 0, {})}

\* setattr(profile, field, value) for every field that the request sets
SetFields(profile, update_data) ==
    [f \in DOMAIN profile |-> IF f \in DOMAIN update_data THEN update_data[f] ELSE profile[f]]

\* UserService.update_user_profile; the fields of UserProfileUpdate that the
\* recommendations read are preferred_categories and quality_threshold
UpdateUserProfile(user_id, profile_data) ==
    /\ GetUserProfile(user_id) = {} /\ (\E u \in users : u.id = user_id)
          => nextProfileId <= MaxProfileId
    /\ profiles' = {IF p.user_id = user_id THEN SetFields(p, profile_data) ELSE p :
                       p \in ProfilesWithProfileOf(user_id)}
    /\ nextProfileId' = IF ProfilesWithProfileOf(user_id) = profiles
                        THEN nextProfileId ELSE nextProfileId + 1
    /\ resp' = Idle
    /\ UNCHANGED <<now, authVars, newsVars, preferences, hotCache, lastRec, trackVars, pwVars,
                   asideVars, trendVars>>

\* UserService.setup_user_preferences (onboarding): the chosen categories
\* become the preferred categories and the confidence becomes 0.5
SetupUserPreferences(user_id, categories) ==
    /\ GetUserProfile(user_id) = {} /\ (\E u \in users : u.id = user_id)
          => nextProfileId <= MaxProfileId
    /\ profiles' = {IF p.user_id = user_id
                    THEN [p EXCEPT !.preferred_categories = categories,
                                   !.profile_confidence = 5]
                    ELSE p :
                       p \in ProfilesWithProfileOf(user_id)}
    /\ nextProfileId' = IF ProfilesWithProfileOf(user_id) = profiles
                        THEN nextProfileId ELSE nextProfileId + 1
    /\ resp' = Idle
    /\ UNCHANGED <<now, authVars, newsVars, preferences, hotCache, lastRec, trackVars, pwVars,
                   asideVars, trendVars>>

\* AuthService.blacklist_token with the default lifetime
BlacklistToken(token) ==
    /\ blacklist' = {b \in blacklist : b.token # token} \cup
                    {[token |-> token,
                      expireAt |-> now + ACCESS_TOKEN_EXPIRE]}
    /\ resp' = Resp(0, NoToken, NoToken)
    /\ UNCHANGED <<otherVars, now, users, nextUserId, refreshStore, refreshLog, accessIssued, newsVars>>

\* UserService.deactivate_user
DeactivateUser(user_id) ==
    /\ \E u \in users : u.id = user_id
    /\ users' = {IF u.id = user_id THEN [u EXCEPT !.is_active = FALSE] ELSE u : u \in users}
    /\ resp' = Resp(0, NoToken, NoToken)
    /\ UNCHANGED <<otherVars, now, nextUserId, refreshStore, blacklist, refreshLog, accessIssued, newsVars>>

\* ------------------------------------------------------------ news service
\* A title is a sequence of characters; a slug is its base and its timestamp,
\* the string "{base}-{YYYYMMDDHHMMSS}".
SLUG_BASE_MAX == 100
Titles == {<<"H", "i">>, <<"h", "i", "!">>, <<"h", " ", "-", "i">>}
SourceUrls == {"url1", "url2"}
NoSlug == [base |-> <<>>, ts |-> -1]
CustomSlug == [base |-> <<"m", "y">>, ts |-> -1]

Lower(c) == IF c = "H" THEN "h" ELSE c
IsWordChar(c) == c \in {"h", "i", "m", "y"}
IsSeparator(c) == c \in {" ", "-"}

RECURSIVE StripChars(_)
\* re.sub(r'[^\w\s-]', '', slug)
StripChars(str) ==
    IF str = <<>> THEN <<>>
    ELSE IF IsWordChar(Head(str)) \/ IsSeparator(Head(str))
         THEN <<Head(str)>> \o StripChars(Tail(str))
         ELSE StripChars(Tail(str))

RECURSIVE CollapseSeparators(_)
\* re.sub(r'[-\s]+', '-', slug)
CollapseSeparators(str) ==
    IF str = <<>> THEN <<>>
    ELSE IF IsSeparator(Head(str))
         THEN IF Len(str) > 1 /\ IsSeparator(str[2])
              THEN CollapseSeparators(Tail(str))
              ELSE <<"-">> \o CollapseSeparators(Tail(str))
         ELSE <<Head(str)>> \o CollapseSeparators(Tail(str))

Truncate(str, n) == IF Len(str) > n THEN SubSeq(str, 1, n) ELSE str

\* _generate_slug: the timestamp is strftime('%Y%m%d%H%M%S'), whole seconds
GenerateSlug(title) ==
    [base |-> Truncate(CollapseSeparators(StripChars([k \in 1..Len(title) |-> Lower(title[k])])),
                       SLUG_BASE_MAX),
     ts |-> NowSeconds]

GetNewsById(news_id) == {n \in news : n.id = news_id}
GetNewsBySlug(slug) == {n \in news : n.slug = slug}

BehaviorRow(user_id, news_id, behavior_type) ==
    [user_id |-> user_id, news_id |-> news_id, behavior_type |-> behavior_type]

AddRow(bag, row) == bag (+) SetToBag({row})
RemoveRow(bag, row) == bag (-) SetToBag({row})
RowCount == BagCardinality(behaviors)

\* HSET news_stats:{id} field value
HSet(stats, news_id, field, value) ==
    {e \in stats : ~(e.news_id = news_id /\ e.field = field)} \cup
    {[news_id |-> news_id, field |-> field, value |-> value]}

\* HINCRBY news_stats:{id} field 1
HIncrBy(stats, news_id, field) ==
    IF \E e \in stats : e.news_id = news_id /\ e.field = field
    THEN {IF e.news_id = news_id /\ e.field = field THEN [e EXCEPT !.value = @ + 1] ELSE e :
             e \in stats}
    ELSE stats \cup {[news_id |-> news_id, field |-> field, value |-> 1]}

\* ZINCRBY hot_news_24h weight news_id
UpdateHotNews(news_id, weight) ==
    hotNews (+) [x \in {news_id} |-> weight]

\* NewsService.create_news
CreateNews(title, explicit_slug, source_url) ==
    /\ LET slug == IF explicit_slug = NoSlug THEN GenerateSlug(title) ELSE explicit_slug IN
       IF GetNewsBySlug(slug) # {}
       THEN /\ resp' = Resp(400, NoToken, NoToken)
            /\ UNCHANGED <<news, nextNewsId, trendingCache>>
       ELSE IF \E n \in news : n.source_url = source_url
       THEN \* unique source_url: the commit raises IntegrityError
            /\ resp' = Resp(500, NoToken, NoToken)
            /\ UNCHANGED <<news, nextNewsId, trendingCache>>
       ELSE /\ nextNewsId <= MaxNewsId
            /\ news' = news \cup {[id |-> nextNewsId, title |-> title, slug |-> slug,
                                   source_url |-> source_url, like_count |-> 0,
                                   share_count |-> 0]}
            /\ nextNewsId' = nextNewsId + 1
            /\ trendingCache' = NoTrending
            /\ resp' = InteractionResp(200, 0, nextNewsId, FALSE, -1)
    /\ UNCHANGED <<profiles, preferences, quietVars, now, authVars, behaviors, newsStats,
                   hotNews, lastToggle>>

\* NewsService.delete_news: the row, the rows it owns, its cache keys
DeleteNews(news_id) ==
    /\ GetNewsById(news_id) # {}
    /\ news' = news \ GetNewsById(news_id)
    /\ behaviors' = [b \in {r \in DOMAIN behaviors : r.news_id # news_id} |-> behaviors[b]]
    /\ newsStats' = {e \in newsStats : e.news_id # news_id}
    /\ trendingCache' = NoTrending
    /\ resp' = InteractionResp(200, 0, news_id, FALSE, -1)
    /\ UNCHANGED <<profiles, preferences, quietVars, now, authVars, nextNewsId, hotNews,
                   lastToggle>>

Max(a, b) == IF a >= b THEN a ELSE b

\* the like counter after an unlike
UnlikeCount(like_count) == Max(0, like_count - 1)

\* NewsService.toggle_like
ToggleLikeBody(news_id, user_id) ==
    IF GetNewsById(news_id) = {}
    THEN /\ resp' = InteractionResp(404, user_id, news_id, FALSE, -1)
         /\ UNCHANGED <<news, behaviors, newsStats, lastToggle>>
    ELSE \E n \in GetNewsById(news_id) :
         LET row == BehaviorRow(user_id, news_id, "like") IN
         IF BagIn(row, behaviors)
         THEN /\ behaviors' = RemoveRow(behaviors, row)
              /\ news' = (news \ {n}) \cup {[n EXCEPT !.like_count = UnlikeCount(n.like_count)]}
              /\ newsStats' = HSet(newsStats, news_id, "like_count", UnlikeCount(n.like_count))
              /\ lastToggle' = [lastToggle EXCEPT ![<<user_id, news_id>>] = "unliked"]
              /\ resp' = InteractionResp(200, user_id, news_id, FALSE,
                                         UnlikeCount(n.like_count))
         ELSE /\ RowCount < MaxBehaviors
              /\ behaviors' = AddRow(behaviors, row)
              /\ news' = (news \ {n}) \cup {[n EXCEPT !.like_count = n.like_count + 1]}
              /\ newsStats' = HSet(newsStats, news_id, "like_count", n.like_count + 1)
              /\ lastToggle' = [lastToggle EXCEPT ![<<user_id, news_id>>] = "liked"]
              /\ resp' = InteractionResp(200, user_id, news_id, TRUE,
                                         n.like_count + 1)

ToggleLike(news_id, user_id) ==
    /\ ToggleLikeBody(news_id, user_id)
    /\ UNCHANGED <<otherVars, now, authVars, nextNewsId, hotNews>>

\* TrackingService.track_interaction: one row of the given type, hot-news weight 2;
\* a news id without a row violates the foreign key and the commit raises
TrackInteractionBody(user_id, news_id, interaction_type) ==
    IF GetNewsById(news_id) = {}
    THEN /\ resp' = InteractionResp(500, user_id, news_id, FALSE, -1)
         /\ UNCHANGED <<behaviors, hotNews>>
    ELSE /\ RowCount < MaxBehaviors
         /\ BagCardinality(hotNews) + 2 <= MaxHotScore
         /\ behaviors' = AddRow(behaviors, BehaviorRow(user_id, news_id, interaction_type))
         /\ hotNews' = UpdateHotNews(news_id, 2)
         /\ resp' = InteractionResp(200, user_id, news_id, FALSE, -1)

TrackInteraction(user_id, news_id, interaction_type) ==
    /\ TrackInteractionBody(user_id, news_id, interaction_type)
    /\ UNCHANGED <<otherVars, now, authVars, news, nextNewsId, newsStats, lastToggle>>

\* NewsService.toggle_collect
ToggleCollectBody(news_id, user_id) ==
    IF GetNewsById(news_id) = {}
    THEN /\ resp' = InteractionResp(404, user_id, news_id, FALSE, -1)
         /\ UNCHANGED behaviors
    ELSE LET row == BehaviorRow(user_id, news_id, "bookmark") IN
         IF BagIn(row, behaviors)
         THEN /\ behaviors' = RemoveRow(behaviors, row)
              /\ resp' = InteractionResp(200, user_id, news_id, FALSE, -1)
         ELSE /\ RowCount < MaxBehaviors
              /\ behaviors' = AddRow(behaviors, row)
              /\ resp' = InteractionResp(200, user_id, news_id, TRUE, -1)

\* ------------------------------------------- the toggles, statement by statement
\* toggle_like and toggle_collect of two requests that run at the same time,
\* each with a session of its own: the query for the existing row, the
\* commit, and for toggle_like the write to the cache are separate steps.
\* the query of toggle_like or toggle_collect: the article, then the existing row
ToggleQuery(c, op, news_id, user_id) ==
    /\ calls[c].pc = "idle"
    /\ IF GetNewsById(news_id) = {}
       THEN /\ resp' = InteractionResp(404, user_id, news_id, FALSE, -1)
            /\ UNCHANGED calls
       ELSE /\ \E n \in GetNewsById(news_id) :
                  calls' = [calls EXCEPT ![c] =
                      [pc |-> "checked", op |-> op, news_id |-> news_id, user_id |-> user_id,
                       existing |-> BagIn(BehaviorRow(user_id, news_id, op), behaviors),
                       gone |-> FALSE, like_count |-> n.like_count]]
            /\ UNCHANGED resp
    /\ UNCHANGED <<now, authVars, newsVars, recVars, preferences, trackVars, pwVars,
                   nextProfileId, trendVars, weighed, diversity, lastLatest, deletedTokens>>

ToggleLikeQuery(c, news_id, user_id) == ToggleQuery(c, "like", news_id, user_id)

ToggleCollectQuery(c, news_id, user_id) == ToggleQuery(c, "bookmark", news_id, user_id)

\* the rows after the commit of call c: the row it saw is deleted, unless
\* another call deleted it first, or a row is inserted
RowsAfterToggle(c) ==
    LET row == BehaviorRow(calls[c].user_id, calls[c].news_id, calls[c].op) IN
    IF calls[c].existing
    THEN IF calls[c].gone THEN behaviors ELSE RemoveRow(behaviors, row)
    ELSE AddRow(behaviors, row)

\* the other calls after the commit of call c: a call that saw the row which
\* c deleted holds a deleted row
CallsAfterToggle(c, done) ==
    [d \in Callers |->
        IF d = c THEN done
        ELSE IF /\ calls[c].existing /\ ~ calls[c].gone
                /\ calls[d].pc = "checked" /\ calls[d].existing
                /\ calls[d].op = calls[c].op
                /\ calls[d].news_id = calls[c].news_id
                /\ calls[d].user_id = calls[c].user_id
        THEN [calls[d] EXCEPT !.gone = TRUE]
        ELSE calls[d]]

\* the commit of toggle_like: the row and the counter computed from the loaded article
ToggleLikeCommit(c) ==
    /\ calls[c].pc = "checked" /\ calls[c].op = "like"
    /\ ~ calls[c].existing => RowCount < MaxRaceRows /\ calls[c].like_count < MaxRaceRows
    /\ LET like_count == IF calls[c].existing THEN UnlikeCount(calls[c].like_count)
                          ELSE calls[c].like_count + 1
       IN  /\ behaviors' = RowsAfterToggle(c)
           /\ news' = {IF n.id = calls[c].news_id THEN [n EXCEPT !.like_count = like_count]
                       ELSE n : n \in news}
           /\ calls' = CallsAfterToggle(c, [calls[c] EXCEPT !.pc = "committed",
                                                            !.like_count = like_count])
    /\ UNCHANGED <<now, authVars, nextNewsId, newsStats, hotNews, lastToggle, recVars,
                   preferences, trackVars, pwVars, nextProfileId, trendVars, weighed, diversity,
                   lastLatest, deletedTokens, resp>>

\* the cache write and the return of toggle_like
ToggleLikeReturn(c) ==
    /\ calls[c].pc = "committed"
    /\ newsStats' = HSet(newsStats, calls[c].news_id, "like_count", calls[c].like_count)
    /\ lastToggle' = [lastToggle EXCEPT ![<<calls[c].user_id, calls[c].news_id>>] =
                          IF calls[c].existing THEN "unliked" ELSE "liked"]
    /\ resp' = InteractionResp(200, calls[c].user_id, calls[c].news_id, ~ calls[c].existing,
                               calls[c].like_count)
    /\ calls' = [calls EXCEPT ![c] = NoCall]
    /\ UNCHANGED <<now, authVars, news, nextNewsId, behaviors, hotNews, recVars,
                   preferences, trackVars, pwVars, nextProfileId, trendVars, weighed, diversity,
                   lastLatest, deletedTokens>>

\* the commit and the return of toggle_collect
ToggleCollectCommit(c) ==
    /\ calls[c].pc = "checked" /\ calls[c].op = "bookmark"
    /\ ~ calls[c].existing => RowCount < MaxRaceRows
    /\ behaviors' = RowsAfterToggle(c)
    /\ resp' = InteractionResp(200, calls[c].user_id, calls[c].news_id, ~ calls[c].existing, -1)
    /\ calls' = CallsAfterToggle(c, NoCall)
    /\ UNCHANGED <<now, authVars, news, nextNewsId, newsStats, hotNews, lastToggle, recVars,
                   preferences, trackVars, pwVars, nextProfileId, trendVars, weighed, diversity,
                   lastLatest, deletedTokens>>

\* NewsService.record_share
RecordShareBody(news_id, user_id) ==
    IF GetNewsById(news_id) = {}
    THEN /\ resp' = InteractionResp(404, user_id, news_id, FALSE, -1)
         /\ UNCHANGED <<news, behaviors, newsStats>>
    ELSE \E n \in GetNewsById(news_id) :
         /\ RowCount < MaxBehaviors
         /\ behaviors' = AddRow(behaviors, BehaviorRow(user_id, news_id, "share"))
         /\ news' = (news \ {n}) \cup {[n EXCEPT !.share_count = n.share_count + 1]}
         /\ newsStats' = HIncrBy(newsStats, news_id, "share_count")
         /\ resp' = InteractionResp(200, user_id, news_id, FALSE, -1)

\* TrackingService.track_click: one click row, hot-news weight 1
TrackClickBody(user_id, news_id) ==
    IF GetNewsById(news_id) = {}
    THEN /\ resp' = InteractionResp(500, user_id, news_id, FALSE, -1)
         /\ UNCHANGED <<behaviors, hotNews>>
    ELSE /\ RowCount < MaxBehaviors
         /\ BagCardinality(hotNews) + 1 <= MaxHotScore
         /\ behaviors' = AddRow(behaviors, BehaviorRow(user_id, news_id, "click"))
         /\ hotNews' = UpdateHotNews(news_id, 1)
         /\ resp' = InteractionResp(200, user_id, news_id, FALSE, -1)

\* the 401 of dependencies.get_current_user: the handler body never runs
Unauthorized(token) ==
    /\ GetCurrentUser(token) = {}
    /\ resp' = Resp(401, NoToken, NoToken)

\* POST /news/{news_id}/like
LikeNews(token, news_id) ==
    /\ \/ Unauthorized(token) /\ UNCHANGED <<news, behaviors, newsStats, lastToggle>>
       \/ \E current_user \in GetCurrentUser(token) :
             ToggleLikeBody(news_id, current_user.id)
    /\ UNCHANGED <<otherVars, now, authVars, nextNewsId, hotNews>>

\* POST /news/{news_id}/collect
CollectNews(token, news_id) ==
    /\ \/ Unauthorized(token) /\ UNCHANGED behaviors
       \/ \E current_user \in GetCurrentUser(token) :
             ToggleCollectBody(news_id, current_user.id)
    /\ UNCHANGED <<otherVars, now, authVars, news, nextNewsId, newsStats, hotNews, lastToggle>>

\* POST /news/{news_id}/share
ShareNews(token, news_id) ==
    /\ \/ Unauthorized(token) /\ UNCHANGED <<news, behaviors, newsStats>>
       \/ \E current_user \in GetCurrentUser(token) :
             RecordShareBody(news_id, current_user.id)
    /\ UNCHANGED <<otherVars, now, authVars, nextNewsId, hotNews, lastToggle>>

\* POST /tracking/click
TrackClick(token, news_id) ==
    /\ \/ Unauthorized(token) /\ UNCHANGED <<behaviors, hotNews>>
       \/ \E current_user \in GetCurrentUser(token) :
             TrackClickBody(current_user.id, news_id)
    /\ UNCHANGED <<otherVars, now, authVars, news, nextNewsId, newsStats, lastToggle>>

\* POST /recommendations/feedback: like -> like, dislike and not_interested -> click
BehaviorTypeOf(feedback_type) == IF feedback_type = "like" THEN "like" ELSE "click"

SubmitRecommendationFeedback(token, news_id, feedback_type) ==
    /\ \/ Unauthorized(token) /\ UNCHANGED <<behaviors, hotNews>>
       \/ \E current_user \in GetCurrentUser(token) :
             TrackInteractionBody(current_user.id, news_id,
                                  BehaviorTypeOf(feedback_type))
    /\ UNCHANGED <<otherVars, now, authVars, news, nextNewsId, newsStats, lastToggle>>

\* ====================================================== engagement weight
\* Weights are exact integers: one unit is 1/1000; the base weights and the
\* multipliers are kept in tenths.
BehaviorTypes == {"impression", "click", "read", "like", "share", "comment", "bookmark"}

BaseWeight(behavior_type) ==
    CASE behavior_type = "impression" -> 1
      [] behavior_type = "click" -> 10
      [] behavior_type = "read" -> 20
      [] behavior_type = "like" -> 30
      [] behavior_type = "share" -> 40
      [] behavior_type = "comment" -> 35
      [] behavior_type = "bookmark" -> 30
      [] OTHER -> 1

\* the truth value of a number or None in an if: None and 0 are false
Truthy(x) == x # NoNumber /\ x # 0

\* UserBehavior.engagement_weight
EngagementWeight(b) ==
    LET base_weight == BaseWeight(b.behavior_type) IN
    IF b.behavior_type = "read" /\ Truthy(b.duration) /\ b.duration > 300
    THEN base_weight * 20 * 10
    ELSE IF b.behavior_type = "read" /\ Truthy(b.duration) /\ b.duration > 120
    THEN base_weight * 15 * 10
    ELSE IF b.behavior_type = "read" /\ Truthy(b.duration) /\ b.duration < 10
    THEN base_weight * 3 * 10
    ELSE IF Truthy(b.read_percentage) /\ b.read_percentage > 80
    THEN base_weight * 15 * 10
    ELSE IF Truthy(b.read_percentage) /\ b.read_percentage < 20
    THEN base_weight * 5 * 10
    ELSE base_weight * 100

\* reading the property of a loaded row
ReadEngagementWeight ==
    /\ weighed.weight = NoWeight
    /\ weighed' = [weighed EXCEPT !.weight = EngagementWeight(weighed.behavior)]
    /\ UNCHANGED <<now, authVars, newsVars, recVars, preferences, trackVars, pwVars,
                   nextProfileId, trendVars, resp, diversity, lastLatest, deletedTokens, calls>>

\* ========================================================= batch tracking
MaxBatch == 2
MaxRecent == 3

BatchTypes == {"impression", "click"}
BatchItem == [news_id : 1..MaxNewsId, behavior_type : BatchTypes]
BehaviorBatchRequest == UNION {[1..k -> BatchItem] : k \in 1..MaxBatch}

\* TrackingService._update_realtime_stats: LPUSH, LTRIM 0 99, HINCRBY
RECENT_KEEP == 100
LPush(list, item) == SubSeq(<<item>> \o list, 1, IF Len(list) + 1 < RECENT_KEEP THEN Len(list) + 1 ELSE RECENT_KEEP)

\* the loop of track_behaviors_batch over items idx..Len(items): each item is
\* added to the session, counted as processed, and pushed to the cache. The
\* only statement of the try block that raises for an item the schema accepted
\* is the cache update, when the cache does not answer: cache_failures holds
\* the positions at which it does not, and the except branch then counts the
\* item, already added and counted as processed, as failed under its index
\* (counted from 0)
RECURSIVE BatchLoop(_, _, _, _, _)
BatchLoop(user_id, items, idx, cache_failures, acc) ==
    IF idx > Len(items) THEN acc
    ELSE LET added == [acc EXCEPT !.pending = AddRow(@, BehaviorRow(user_id,
                                                                     items[idx].news_id,
                                                                     items[idx].behavior_type)),
                                   !.processed = @ + 1]
         IN  BatchLoop(user_id, items, idx + 1, cache_failures,
                IF idx \in cache_failures
                THEN [added EXCEPT !.failed = @ + 1,
                                   !.failed_indices = Append(@, idx - 1)]
                ELSE [added EXCEPT !.recent = LPush(@, items[idx]),
                                   !.counts = AddRow(@, [user_id |-> user_id,
                                                         behavior_type |->
                                                             items[idx].behavior_type])])

\* Session.commit: the pending rows are inserted in one transaction; a row whose
\* user_id or news_id names no row violates its foreign key and the commit raises
CommitAccepts(pending) ==
    \A r \in BagToSet(pending) : GetNewsById(r.news_id) # {} /\ r.user_id \in {u.id : u \in users}

\* TrackingService.track_behaviors_batch, called by POST /tracking/behaviors
TrackBehaviorsBatch(user_id, items, cache_failures) ==
    LET done == BatchLoop(user_id, items, 1, cache_failures,
                          [pending |-> EmptyBag, processed |-> 0, failed |-> 0,
                           failed_indices |-> <<>>, recent |-> recentBehaviors[user_id],
                           counts |-> behaviorCounts])
    IN /\ BagCardinality(behaviorCounts) + Len(items) <= MaxRecent
       /\ recentBehaviors' = [recentBehaviors EXCEPT ![user_id] = done.recent]
       /\ behaviorCounts' = done.counts
       /\ IF done.processed > 0 /\ ~ CommitAccepts(done.pending)
          THEN \* IntegrityError leaves the service; the handler answers 500
               /\ lastBatch' = [user_id |-> user_id, behaviors |-> items, raised |-> TRUE,
                                success |-> FALSE, total_processed |-> 0, total_failed |-> 0,
                                failed_indices |-> <<>>]
               /\ resp' = InteractionResp(500, user_id, 0, FALSE, -1)
               /\ UNCHANGED behaviors
          ELSE /\ RowCount + done.processed <= MaxBehaviors
               /\ behaviors' = behaviors (+) done.pending
               /\ lastBatch' = [user_id |-> user_id, behaviors |-> items, raised |-> FALSE,
                                success |-> done.failed = 0,
                                total_processed |-> done.processed,
                                total_failed |-> done.failed,
                                failed_indices |-> done.failed_indices]
               /\ resp' = InteractionResp(200, user_id, 0, FALSE, -1)
       /\ UNCHANGED <<recVars, preferences, nextProfileId, pwVars, asideVars, trendVars, now, authVars,
                      news, nextNewsId, newsStats, hotNews, lastToggle>>

\* TrackingService.track_behavior: the row is committed, then pushed to the cache
TrackBehavior(user_id, behavior_data) ==
    /\ IF GetNewsById(behavior_data.news_id) = {} \/ ~ \E u \in users : u.id = user_id
       THEN /\ resp' = InteractionResp(500, user_id, behavior_data.news_id, FALSE, -1)
            /\ UNCHANGED <<behaviors, recentBehaviors, behaviorCounts>>
       ELSE /\ RowCount < MaxBehaviors
            /\ BagCardinality(behaviorCounts) + 1 <= MaxRecent
            /\ behaviors' = AddRow(behaviors, BehaviorRow(user_id, behavior_data.news_id,
                                                          behavior_data.behavior_type))
            /\ recentBehaviors' = [recentBehaviors EXCEPT ![user_id] = LPush(@, behavior_data)]
            /\ behaviorCounts' = AddRow(behaviorCounts,
                                        [user_id |-> user_id,
                                         behavior_type |-> behavior_data.behavior_type])
            /\ resp' = InteractionResp(200, user_id, behavior_data.news_id, FALSE, -1)
    /\ UNCHANGED <<lastBatch, recVars, preferences, nextProfileId, pwVars, asideVars, trendVars,
                   now, authVars, news, nextNewsId, newsStats, hotNews, lastToggle>>

\* TrackingService.track_impression, called by POST /tracking/impression with
\* one article: one impression row
TrackImpression(user_id, news_id) ==
    /\ IF GetNewsById(news_id) = {} \/ ~ \E u \in users : u.id = user_id
       THEN /\ resp' = InteractionResp(500, user_id, news_id, FALSE, -1)
            /\ UNCHANGED behaviors
       ELSE /\ RowCount < MaxBehaviors
            /\ behaviors' = AddRow(behaviors, BehaviorRow(user_id, news_id, "impression"))
            /\ resp' = InteractionResp(200, user_id, news_id, FALSE, -1)
    /\ UNCHANGED <<otherVars, now, authVars, news, nextNewsId, newsStats, hotNews, lastToggle>>

\* TrackingService.track_read, called by POST /tracking/read: one read row
TrackRead(user_id, news_id) ==
    /\ IF GetNewsById(news_id) = {} \/ ~ \E u \in users : u.id = user_id
       THEN /\ resp' = InteractionResp(500, user_id, news_id, FALSE, -1)
            /\ UNCHANGED behaviors
       ELSE /\ RowCount < MaxBehaviors
            /\ behaviors' = AddRow(behaviors, BehaviorRow(user_id, news_id, "read"))
            /\ resp' = InteractionResp(200, user_id, news_id, FALSE, -1)
    /\ UNCHANGED <<otherVars, now, authVars, news, nextNewsId, newsStats, hotNews, lastToggle>>

\* ================================================= recommendation service
\* Ranking columns are kept in tenths and scores as exact integers: one unit
\* of CalculateNewsScore is 1/720000, one unit of a ranked score 1/7200000.
\* published_at is counted in hours relative to the hour of the clock.
MaxRecNews == 2

ArticleKinds ==
    <<[category_id |-> 1, is_published |-> TRUE, is_featured |-> FALSE, is_breaking |-> FALSE,
       published_at |-> 0, trending_score |-> 5, popularity_score |-> 0, quality_score |-> 5],
      [category_id |-> 1, is_published |-> TRUE, is_featured |-> FALSE, is_breaking |-> FALSE,
       published_at |-> 0, trending_score |-> 0, popularity_score |-> 5, quality_score |-> 5],
      [category_id |-> 2, is_published |-> TRUE, is_featured |-> TRUE, is_breaking |-> FALSE,
       published_at |-> -2, trending_score |-> 5, popularity_score |-> 5, quality_score |-> 5],
      [category_id |-> 2, is_published |-> TRUE, is_featured |-> FALSE, is_breaking |-> TRUE,
       published_at |-> -36, trending_score |-> 0, popularity_score |-> 0, quality_score |-> 0]>>

RankedNews(id, kind) == [id |-> id] @@ kind

HoursOld(n) == (now \div 3600) - n.published_at

\* the orders a query may return its rows in
Perms(S) ==
    {f \in [1..Cardinality(S) -> S] : \A i, j \in 1..Cardinality(S) : i # j => f[i] # f[j]}

TrendingKey(n) == n.trending_score
PublishedKey(n) == n.published_at

\* query.order_by(desc(key)).all(): rows with equal keys come in any order
OrderByDesc(S, Key(_)) ==
    {f \in Perms(S) : \A i \in 1..(Cardinality(S) - 1) : Key(f[i]) >= Key(f[i + 1])}

Limit(rows, limit) == IF Len(rows) > limit THEN SubSeq(rows, 1, limit) ELSE rows

IdsOf(rows) == [i \in 1..Len(rows) |-> rows[i].id]

Tagged(rows, strategy) == [i \in 1..Len(rows) |-> [news |-> rows[i], strategy |-> strategy]]

\* _recall_hot_news: the rows and the cache after the call
HotCached(cache, category_id, limit) ==
    /\ cache[<<category_id, limit>>] # NoList
    /\ now < cache[<<category_id, limit>>].expireAt

\* if category_id: query.filter(News.category_id == category_id)
InCategory(n, category_id) == category_id # NoCategory => n.category_id = category_id

RecallHotNews(cache, category_id, limit) ==
    IF HotCached(cache, category_id, limit)
    THEN {[list |-> l, cache |-> cache] :
             l \in Perms({n \in news :
                             \E i \in 1..Len(cache[<<category_id, limit>>].ids) :
                                 cache[<<category_id, limit>>].ids[i] = n.id})}
    ELSE {[list |-> Limit(l, limit),
           cache |-> [cache EXCEPT ![<<category_id, limit>>] =
                         [ids |-> IdsOf(Limit(l, limit)), expireAt |-> now + 300]]] :
             l \in OrderByDesc({n \in news : /\ n.is_published
                                              /\ HoursOld(n) <= 24
                                              /\ InCategory(n, category_id)},
                               TrendingKey)}

\* _recall_featured_news
RecallFeaturedNews(category_id, limit) ==
    {Limit(l, limit) :
        l \in OrderByDesc({n \in news : /\ n.is_published
                                         /\ n.is_featured
                                         /\ InCategory(n, category_id)}, PublishedKey)}

\* _recall_fresh_news
RecallFreshNews(category_id, limit) ==
    {Limit(l, limit) :
        l \in OrderByDesc({n \in news : n.is_published /\ InCategory(n, category_id)},
                          PublishedKey)}

\* _recall_content_based; preferred_categories holds at most three categories
RecallContentBased(cache, user_profile, category_id, limit) ==
    IF user_profile.preferred_categories = {}
    THEN RecallHotNews(cache, category_id, limit)
    ELSE {[list |-> Limit(l, limit), cache |-> cache] :
             l \in OrderByDesc(
                 {n \in news :
                     /\ n.is_published
                     /\ n.category_id \in user_profile.preferred_categories
                     /\ InCategory(n, category_id)
                     /\ (user_profile.quality_threshold # 0
                            => n.quality_score >= user_profile.quality_threshold)},
                 PublishedKey)}

\* _recall_collaborative; the row limits 1000, 20 and 100 exceed the tables
PositiveRows == {r \in DOMAIN behaviors : r.behavior_type \in {"read", "like", "bookmark"}}
UserNewsIds(user_id) == {r.news_id : r \in {q \in PositiveRows : q.user_id = user_id}}
SimilarUserIds(user_id) ==
    {r.user_id : r \in {q \in PositiveRows :
                           q.news_id \in UserNewsIds(user_id) /\ q.user_id # user_id}}
RecallCollaborative(user_id, limit) ==
    IF UserNewsIds(user_id) = {} THEN {<<>>}
    ELSE LET top_news_ids ==
                 {r.news_id : r \in {q \in PositiveRows :
                                        /\ q.user_id \in SimilarUserIds(user_id)
                                        /\ q.news_id \notin UserNewsIds(user_id)}}
         IN  Perms({n \in news : n.id \in top_news_ids})

\* _cold_start_recall: the candidates and the cache after the call
ColdStartRecall(cache, category_id) ==
    {[candidates |-> Tagged(h.list, "hot") \o Tagged(fe, "featured") \o Tagged(fr, "fresh"),
      cache |-> h.cache] :
        h \in RecallHotNews(cache, category_id, HOT_LIMIT_COLD),
        fe \in RecallFeaturedNews(category_id, 20),
        fr \in RecallFreshNews(category_id, 20)}

\* _multi_strategy_recall
MultiStrategyRecall(cache, user_id, user_profile, category_id) ==
    UNION {{[candidates |-> Tagged(c.list, "content") \o Tagged(co, "collaborative")
                                \o Tagged(h.list, "hot") \o Tagged(fr, "fresh"),
             cache |-> h.cache] :
               h \in RecallHotNews(c.cache, category_id, HOT_LIMIT_WARM),
               co \in RecallCollaborative(user_id, 30),
               fr \in RecallFreshNews(category_id, 10)} :
           c \in RecallContentBased(cache, user_profile, category_id, CONTENT_LIMIT)}

\* _deduplicate_candidates
RECURSIVE DeduplicateFrom(_, _, _)
DeduplicateFrom(candidates, seen_news_ids, deduplicated) ==
    IF candidates = <<>> THEN deduplicated
    ELSE LET c == Head(candidates) IN
         IF c.news.id \in seen_news_ids
         THEN DeduplicateFrom(Tail(candidates), seen_news_ids, deduplicated)
         ELSE DeduplicateFrom(Tail(candidates), seen_news_ids \cup {c.news.id},
                              Append(deduplicated, c))

\* faulty variant: every occurrence is kept
DeduplicateNothing(candidates) == candidates

DeduplicateCandidates(candidates) == DeduplicateFrom(candidates, {}, <<>>)

\* _calculate_news_score
StrategyWeight(strategy) ==
    CASE strategy = "content" -> 7200
      [] strategy = "collaborative" -> 8640
      [] strategy = "hot" -> 5760
      [] strategy = "featured" -> 6480
      [] strategy = "fresh" -> 4320
      [] OTHER -> 3600

CalculateNewsScore(n, strategy) ==
    LET base_score == StrategyWeight(strategy) + 216 * n.popularity_score
                      + 216 * n.trending_score + 144 * n.quality_score
                      + 20 * Max(0, 72 - HoursOld(n))
        boosted == IF n.is_breaking THEN base_score * 15 ELSE base_score * 10
    IN  IF n.is_featured THEN boosted * 12 ELSE boosted * 10

\* _rank_candidates: scoring with the category penalty, then the stable sort
RECURSIVE ScoreCandidates(_, _, _)
ScoreCandidates(candidates, scored_candidates, diversify) ==
    IF candidates = <<>> THEN scored_candidates
    ELSE LET c == Head(candidates)
             score == CalculateNewsScore(c.news, c.strategy)
             category_count ==
                 Cardinality({i \in 1..Len(scored_candidates) :
                     scored_candidates[i].news.category_id = c.news.category_id})
             final == IF diversify /\ category_count >= 3 THEN score * 7 ELSE score * 10
         IN  ScoreCandidates(Tail(candidates),
                             Append(scored_candidates,
                                    [news |-> c.news, score |-> final, strategy |-> c.strategy]),
                             diversify)

InsertByScore(sorted, x) ==
    LET k == Cardinality({i \in 1..Len(sorted) : sorted[i].score >= x.score})
    IN  SubSeq(sorted, 1, k) \o <<x>> \o SubSeq(sorted, k + 1, Len(sorted))

RECURSIVE SortByScore(_, _)
SortByScore(rest, sorted) ==
    IF rest = <<>> THEN sorted
    ELSE SortByScore(Tail(rest), InsertByScore(sorted, Head(rest)))

\* _apply_diversity_reranking
RemoveAt(seq, idx) == SubSeq(seq, 1, idx - 1) \o SubSeq(seq, idx + 1, Len(seq))

RECURSIVE Rerank(_, _)
Rerank(reranked, remaining) ==
    IF remaining = <<>> THEN reranked
    ELSE LET mmr(idx) ==
                 remaining[idx].score
                 - 720000 * Cardinality({i \in 1..Len(reranked) :
                       reranked[i].news.category_id = remaining[idx].news.category_id})
             above == {idx \in 1..Len(remaining) : mmr(idx) > -14400000}
             best_idx ==
                 IF above = {} THEN 1
                 ELSE CHOOSE idx \in above :
                          /\ \A j \in above : mmr(j) <= mmr(idx)
                          /\ \A j \in above : j < idx => mmr(j) < mmr(idx)
         IN  Rerank(Append(reranked, remaining[best_idx]), RemoveAt(remaining, best_idx))

ApplyDiversityReranking(scored_candidates) ==
    IF Len(scored_candidates) <= 10 THEN scored_candidates
    ELSE Rerank(<<>>, scored_candidates)

RankCandidates(candidates, diversify) ==
    LET sorted == SortByScore(ScoreCandidates(candidates, <<>>, diversify), <<>>)
    IN  IF diversify THEN ApplyDiversityReranking(sorted) ELSE sorted

\* _rank_candidates with diversify = true, on a candidate list of its own
RankDiversified ==
    /\ ~ diversity.returned
    /\ LET sorted == SortByScore(ScoreCandidates(diversity.candidates, <<>>, TRUE), <<>>)
       IN  diversity' = [diversity EXCEPT !.scored_candidates = sorted,
                                          !.reranked = ApplyDiversityReranking(sorted),
                                          !.returned = TRUE]
    /\ UNCHANGED <<now, authVars, newsVars, recVars, preferences, trackVars, pwVars,
                   nextProfileId, trendVars, resp, weighed, lastLatest, deletedTokens, calls>>

\* get_recommendations: pagination and the returned items
PageOf(ranked_candidates, page, page_size) ==
    LET start == (page - 1) * page_size
        end == IF start + page_size < Len(ranked_candidates)
               THEN start + page_size ELSE Len(ranked_candidates)
    IN  [i \in 1..Max(0, end - start) |->
            [news_id |-> ranked_candidates[start + i].news.id,
             position |-> start + i - 1,
             recommendation_score |-> ranked_candidates[start + i].score,
             recall_strategy |-> ranked_candidates[start + i].strategy]]

\* faulty variant: only a user without a profile is a cold start
IsColdStartWithoutProfile(user_id) == \A p \in profiles : p.user_id # user_id

\* not user_profile or user_profile.is_cold_start_user
IsColdStart(user_id) ==
    \A p \in profiles : p.user_id = user_id => p.profile_confidence < 3

RecallOrder(candidates) ==
    [i \in 1..Len(candidates) |->
        [news_id |-> candidates[i].news.id, strategy |-> candidates[i].strategy]]

\* ============================================================ latest news
\* the rows of news_categories
NewsCategories == {[id |-> 1, name |-> "technology"], [id |-> 2, name |-> "sports"]}

\* NewsService.get_latest_news
GetLatestNews(category_id, limit) ==
    {Limit(l, limit) :
        l \in OrderByDesc({n \in news : n.is_published /\ InCategory(n, category_id)},
                          PublishedKey)}

\* list[start:end]
Slice(list, start, end) ==
    IF start >= Len(list) THEN <<>>
    ELSE SubSeq(list, start + 1, IF end < Len(list) THEN end ELSE Len(list))

\* GET /news/latest: the category name is resolved, the service is asked for
\* `limit` rows, and the page is cut out of what it returned
GetLatestNewsPage(page, limit, category) ==
    LET cat == {c \in NewsCategories : c.name = category}
        category_id == IF category # None /\ cat # {}
                       THEN (CHOOSE c \in cat : TRUE).id ELSE NoCategory
        start == (page - 1) * limit
        end == start + limit
    IN  /\ \E latest_news \in GetLatestNews(category_id, limit) :
              lastLatest' = [page |-> page, limit |-> limit, category |-> category,
                             items |-> IdsOf(Slice(latest_news, start, end)),
                             total |-> Len(latest_news)]
        /\ UNCHANGED <<now, authVars, newsVars, recVars, preferences, trackVars, pwVars,
                       nextProfileId, trendVars, resp, weighed, diversity, deletedTokens,
                       calls>>

\* ========================================================== trending news
\* NewsService.get_trending_news and the writes of NewsService, each split at
\* its awaits and commits, so that a call of one can run between two steps of
\* the other. The article of a split create_news gets a slug of its own.
MaxWrites == 2
TRENDING_LIMIT == 20
TRENDING_TTL == 300

TrendingCached == trendingCache # NoTrending /\ now < trendingCache.expireAt

\* get_trending_news: redis.get(cache_key)
TrendingGet ==
    /\ reader.pc = "idle"
    /\ reader' = IF TrendingCached
                  THEN [pc |-> "fetch", ids |-> trendingCache.ids, ver |-> trendingCache.ver,
                        started |-> completedVersion]
                  ELSE [pc |-> "query", ids |-> <<>>, ver |-> 0, started |-> completedVersion]
    /\ UNCHANGED <<now, authVars, newsVars, resp, recVars, preferences, trackVars, pwVars,
                   nextProfileId, asideVars, trendingCache, storeVersion, completedVersion,
                   writer, lastTrending>>

\* get_trending_news, cached: query(News).filter(News.id.in_(news_ids)).all()
TrendingFetch ==
    /\ reader.pc = "fetch"
    /\ \E l \in Perms({n \in news : \E i \in 1..Len(reader.ids) : reader.ids[i] = n.id}) :
          lastTrending' = [ids |-> IdsOf(l), ver |-> reader.ver, started |-> reader.started,
                           cached |-> TRUE]
    /\ reader' = ReaderIdle
    /\ UNCHANGED <<now, authVars, newsVars, resp, recVars, preferences, trackVars, pwVars,
                   nextProfileId, asideVars, trendingCache, storeVersion, completedVersion,
                   writer>>

\* get_trending_news, not cached: the query of the published articles of the
\* time range, by trending_score
TrendingQuery ==
    /\ reader.pc = "query"
    /\ \E l \in OrderByDesc({n \in news : n.is_published /\ HoursOld(n) <= 24}, TrendingKey) :
          reader' = [reader EXCEPT !.pc = "store", !.ids = IdsOf(Limit(l, TRENDING_LIMIT)),
                                   !.ver = storeVersion]
    /\ UNCHANGED <<now, authVars, newsVars, resp, recVars, preferences, trackVars, pwVars,
                   nextProfileId, asideVars, trendingCache, storeVersion, completedVersion,
                   writer, lastTrending>>

\* get_trending_news, not cached: redis.setex(cache_key, 300, news_ids), return
TrendingStore ==
    /\ reader.pc = "store"
    /\ trendingCache' = [ids |-> reader.ids, expireAt |-> now + TRENDING_TTL,
                         ver |-> reader.ver]
    /\ lastTrending' = [ids |-> reader.ids, ver |-> reader.ver, started |-> reader.started,
                        cached |-> FALSE]
    /\ reader' = ReaderIdle
    /\ UNCHANGED <<now, authVars, newsVars, resp, recVars, preferences, trackVars, pwVars,
                   nextProfileId, asideVars, storeVersion, completedVersion, writer>>

\* the commit of a write: the store has a new version, the invalidation follows
Committed(op, news_id) ==
    /\ writer.pc = "idle"
    /\ storeVersion < MaxWrites
    /\ storeVersion' = storeVersion + 1
    /\ writer' = [pc |-> "keys", op |-> op, news_id |-> news_id, found |-> FALSE]
    /\ UNCHANGED <<now, authVars, resp, recVars, preferences, trackVars, pwVars,
                   nextProfileId, asideVars, trendingCache, completedVersion, reader,
                   lastTrending, newsStats, hotNews, lastToggle>>

\* create_news up to db.commit()
CreateNewsCommit(kind) ==
    /\ nextNewsId <= MaxNewsId
    /\ news' = news \cup {RankedNews(nextNewsId, ArticleKinds[kind])}
    /\ nextNewsId' = nextNewsId + 1
    /\ Committed("create", nextNewsId)
    /\ UNCHANGED behaviors

\* update_news up to db.commit(), with is_published in the update
UpdateNewsCommit(news_id, is_published) ==
    /\ GetNewsById(news_id) # {}
    /\ news' = {IF n.id = news_id THEN [n EXCEPT !.is_published = is_published] ELSE n :
                   n \in news}
    /\ Committed("update", news_id)
    /\ UNCHANGED <<nextNewsId, behaviors>>

\* delete_news up to db.commit()
DeleteNewsCommit(news_id) ==
    /\ GetNewsById(news_id) # {}
    /\ news' = news \ GetNewsById(news_id)
    /\ behaviors' = [b \in {r \in DOMAIN behaviors : r.news_id # news_id} |-> behaviors[b]]
    /\ Committed("delete", news_id)
    /\ UNCHANGED nextNewsId

\* the write returns: delete_news drops news_stats:{id} on its way out
WriteReturns ==
    /\ writer' = WriterIdle
    /\ completedVersion' = storeVersion
    /\ newsStats' = IF writer.op = "delete"
                     THEN {e \in newsStats : e.news_id # writer.news_id}
                     ELSE newsStats
    /\ UNCHANGED <<now, authVars, resp, recVars, preferences, trackVars, pwVars,
                   nextProfileId, asideVars, storeVersion, reader, lastTrending, news,
                   nextNewsId, behaviors, hotNews, lastToggle>>

\* _invalidate_news_caches: redis.keys("trending_news:*"); with no key found
\* there is nothing to delete
InvalidateKeys ==
    /\ writer.pc = "keys"
    /\ IF trendingCache # NoTrending /\ now < trendingCache.expireAt
       THEN /\ writer' = [writer EXCEPT !.pc = "delete", !.found = TRUE]
            /\ UNCHANGED <<now, authVars, resp, recVars, preferences, trackVars, pwVars,
                           nextProfileId, asideVars, storeVersion, completedVersion, reader,
                           lastTrending, newsVars>>
       ELSE WriteReturns
    /\ UNCHANGED trendingCache

\* _invalidate_news_caches: redis.delete(*keys)
InvalidateDelete ==
    /\ writer.pc = "delete"
    /\ trendingCache' = NoTrending
    /\ WriteReturns

GetRecommendations(user_id, page, page_size, category_id, diversify) ==
    /\ \E r \in (IF IsColdStart(user_id)
                 THEN ColdStartRecall(hotCache, category_id)
                 ELSE UNION {MultiStrategyRecall(hotCache, user_id, p, category_id) :
                                p \in {q \in profiles : q.user_id = user_id}}) :
          /\ hotCache' = r.cache
          /\ lastRec' =
                [user_id |-> user_id, page |-> page, page_size |-> page_size,
                 category_id |-> category_id, diversify |-> diversify, at |-> now,
                 cached |-> HotCached(hotCache, category_id, HOT_LIMIT_COLD),
                 is_cold_start |-> IsColdStart(user_id),
                 items |-> PageOf(RankCandidates(DeduplicateCandidates(r.candidates),
                                                 diversify), page, page_size),
                 candidates |-> RecallOrder(r.candidates)]
    /\ resp' = Idle
    /\ UNCHANGED <<now, authVars, newsVars, profiles, preferences, nextProfileId, trackVars,
                   pwVars, asideVars, trendVars>>

Next ==
    \/ Tick
    \/ \E e \in Emails, u \in Usernames, p \in RegisterPasswords : Register(e, u, p)
    \/ \E e \in Emails, p \in Passwords : Login(e, p)
    \/ \E t \in Presentable : RefreshToken(t)
    \/ \E t \in Presentable \cup {NoToken} : Logout(t)

Spec == Init /\ [][Next]_vars

\* accounts: registration, login and account deletion
NextAccount ==
    \/ Tick
    \/ \E e \in Emails, u \in Usernames, p \in RegisterPasswords : Register(e, u, p)
    \/ \E e \in Emails, p \in Passwords : Login(e, p)
    \/ \E t \in Presentable \cup {NoToken} : DeleteAccount(t)

SpecAccount == Init /\ [][NextAccount]_vars


\* the users that the conftest fixtures and two registrations leave in the store
SeedUser(id, email, username) ==
    [id |-> id, email |-> email, username |-> username,
     hashed_password |-> GetPasswordHash("Pw1"), is_active |-> TRUE,
     last_login_at |-> NoNumber, login_count |-> 0]

\* the article that the conftest fixture test_news leaves in the store
SeedNews(id, title, source_url) ==
    [id |-> id, title |-> title, slug |-> GenerateSlug(title), source_url |-> source_url,
     like_count |-> 0, share_count |-> 0]

UserIds == {u.id : u \in users}

\* slugs: creation and deletion of articles over time, from the empty store
NextSlug ==
    \/ Tick
    \/ \E t \in Titles, sl \in {NoSlug, CustomSlug} \cup {n.slug : n \in news},
          su \in SourceUrls : CreateNews(t, sl, su)
    \/ \E n \in 1..MaxNewsId : DeleteNews(n)

SpecSlug == Init /\ [][NextSlug]_vars

\* likes: two users and one article, as the fixtures seed them
InitLike ==
    /\ now = 0
    /\ users = {SeedUser(1, "a@x", "alice"), SeedUser(2, "b@x", "bob")}
    /\ nextUserId = 3
    /\ refreshStore = [e \in Emails |-> NoEntry]
    /\ blacklist = {}
    /\ refreshLog = [e \in Emails |-> <<>>]
    /\ accessIssued = {}
    /\ resp = Idle
    /\ news = {SeedNews(1, <<"H", "i">>, "url1")}
    /\ nextNewsId = 2
    /\ behaviors = EmptyBag
    /\ newsStats = {}
    /\ hotNews = EmptyBag
    /\ lastToggle = [k \in (1..MaxUserId) \X (1..MaxNewsId) |-> "none"]
    /\ InitOther

NextLike ==
    \/ \E n \in 1..MaxNewsId, u \in UserIds : ToggleLike(n, u)
    \/ \E n \in 1..MaxNewsId, u \in UserIds : TrackInteraction(u, n, "like")

SpecLike == InitLike /\ [][NextLike]_vars

\* sessions: the guarded routes, with one logged-in user and one article seeded
MaxBlacklist == 1
MaxSessionRows == 1

InitSession ==
    /\ now = 0
    /\ users = {SeedUser(1, "a@x", "alice")}
    /\ nextUserId = 2
    /\ refreshStore = RedisSetRefresh([e \in Emails |-> NoEntry], "a@x", NewRefreshToken("a@x"))
    /\ blacklist = {}
    /\ refreshLog = [e \in Emails |-> IF e = "a@x" THEN <<NewRefreshToken("a@x")>> ELSE <<>>]
    /\ accessIssued = {CreateAccessToken("a@x")}
    /\ resp = Idle
    /\ news = {SeedNews(1, <<"H", "i">>, "url1")}
    /\ nextNewsId = 2
    /\ behaviors = EmptyBag
    /\ newsStats = {}
    /\ hotNews = EmptyBag
    /\ lastToggle = [k \in (1..MaxUserId) \X (1..MaxNewsId) |-> "none"]
    /\ InitOther

Bearer == Presentable \cup {NoToken}

NextSession ==
    \/ Tick
    \/ \E t \in accessIssued \cup RefreshIssued :
          Cardinality(blacklist) < MaxBlacklist /\ BlacklistToken(t)
    \/ \E id \in 1..MaxUserId : DeactivateUser(id)
    \/ \E t \in Bearer : GetCurrentUserInfo(t)
    \/ \E t \in Bearer : Logout(t)
    \/ \E t \in Bearer : DeleteAccount(t)
    \/ \E t \in Bearer, n \in 1..MaxNewsId :
          BagCardinality(behaviors) < MaxSessionRows /\ LikeNews(t, n)
    \/ \E t \in Bearer, n \in 1..MaxNewsId :
          BagCardinality(behaviors) < MaxSessionRows /\ CollectNews(t, n)
    \/ \E t \in Bearer, n \in 1..MaxNewsId :
          BagCardinality(behaviors) < MaxSessionRows /\ ShareNews(t, n)
    \/ \E t \in Bearer, n \in 1..MaxNewsId :
          BagCardinality(behaviors) < MaxSessionRows /\ TrackClick(t, n)
    \/ \E t \in Bearer, n \in 1..MaxNewsId, f \in {"like", "dislike"} :
          BagCardinality(behaviors) < MaxSessionRows /\ SubmitRecommendationFeedback(t, n, f)

SpecSession == InitSession /\ [][NextSession]_vars

\* passwords: one logged-in user who logs in, refreshes and changes the password
NextPassword ==
    \/ Tick
    \/ \E e \in Emails, p \in Passwords : Login(e, p)
    \/ \E t \in RefreshIssued : RefreshToken(t)
    \/ \E u \in users, c \in Passwords, n \in ValidPasswords : ChangePassword(u, c, n)

SpecPassword == InitSession /\ [][NextPassword]_vars

\* active users: one logged-in user who may be deactivated and log in again
NextActive ==
    \/ Tick
    \/ \E e \in Emails, p \in {"Pw1", "Pw2"} : Login(e, p)
    \/ \E t \in accessIssued \cup RefreshIssued :
          Cardinality(blacklist) < MaxBlacklist /\ BlacklistToken(t)
    \/ \E id \in 1..MaxUserId : DeactivateUser(id)
    \/ \E t \in Bearer : RequireActiveUser(t)

SpecActive == InitSession /\ [][NextActive]_vars

\* trending: one article, one caller of get_trending_news and one writer
InitTrending ==
    /\ InitAuth
    /\ news = {RankedNews(1, ArticleKinds[1])}
    /\ nextNewsId = 2
    /\ behaviors = EmptyBag
    /\ newsStats = {}
    /\ hotNews = EmptyBag
    /\ lastToggle = [k \in (1..MaxUserId) \X (1..MaxNewsId) |-> "none"]
    /\ InitOther

NextTrending ==
    \/ TrendingGet
    \/ TrendingFetch
    \/ TrendingQuery
    \/ TrendingStore
    \/ \E kind \in 1..Len(ArticleKinds) : CreateNewsCommit(kind)
    \/ \E n \in 1..MaxNewsId, is_published \in BOOLEAN : UpdateNewsCommit(n, is_published)
    \/ \E n \in 1..MaxNewsId : DeleteNewsCommit(n)
    \/ InvalidateKeys
    \/ InvalidateDelete

SpecTrending == InitTrending /\ [][NextTrending]_vars

\* owned rows: users, articles, behaviors, profiles and preferences come and go
PreferenceKeys == {"technology"}

NextCascade ==
    \/ \E a \in {<<"a@x", "alice">>, <<"b@x", "bob">>} : Register(a[1], a[2], "Pw1")
    \/ \E a \in {<<NoSlug, "url1">>, <<CustomSlug, "url2">>} : CreateNews(<<"H", "i">>, a[1], a[2])
    \/ \E u \in UserIds, n \in 1..MaxNewsId : TrackInteraction(u, n, "like")
    \/ \E u \in 1..MaxUserId : CreateUserProfile(u)
    \/ \E u \in 1..MaxUserId, k \in PreferenceKeys : CreateUserPreference(u, k)
    \/ \E u \in 1..MaxUserId : DeleteUserById(u)
    \/ \E n \in 1..MaxNewsId : DeleteNews(n)

SpecCascade == Init /\ [][NextCascade]_vars

\* engagement weight: one behavior row of any type, duration and percentage
Durations == {NoNumber, 0, 5, 10, 60, 120, 121, 300, 301, 400}
ReadPercentages == {NoNumber, 0, 10, 20, 50, 80, 81, 90, 100}

InitWeight ==
    /\ InitAuth /\ InitNewsEmpty /\ InitRecIdle /\ InitTrackIdle /\ InitPwIdle /\ InitTrendIdle
    /\ weighed \in [behavior : [behavior_type : BehaviorTypes, duration : Durations,
                                 read_percentage : ReadPercentages],
                     weight : {NoWeight}]
    /\ diversity = NoDiversity
    /\ lastLatest = NoLatest
    /\ deletedTokens = {}
    /\ calls = [c \in Callers |-> NoCall]

SpecWeight == InitWeight /\ [][ReadEngagementWeight]_vars

\* batch tracking: two users and one article, as the fixtures seed them
NextTrack ==
    \E u \in UserIds, items \in BehaviorBatchRequest : TrackBehaviorsBatch(u, items, {})

SpecTrack == InitLike /\ [][NextTrack]_vars

\* recommendations: two seeded users, articles of distinct kinds, one requester
InitRecommend ==
    /\ now = 0
    /\ users = {SeedUser(1, "a@x", "alice"), SeedUser(2, "b@x", "bob")}
    /\ nextUserId = 3
    /\ refreshStore = [e \in Emails |-> NoEntry]
    /\ blacklist = {}
    /\ refreshLog = [e \in Emails |-> <<>>]
    /\ accessIssued = {}
    /\ resp = Idle
    /\ news \in {{RankedNews(i, ArticleKinds[kinds[i]]) : i \in 1..MaxRecNews} :
                    kinds \in {k \in [1..MaxRecNews -> 1..Len(ArticleKinds)] :
                                 \A i, j \in 1..MaxRecNews : i < j => k[i] < k[j]}}
    /\ nextNewsId = MaxRecNews + 1
    /\ behaviors \in {EmptyBag,
                      SetToBag({BehaviorRow(1, 1, "like"), BehaviorRow(2, 1, "like"),
                                BehaviorRow(2, 2, "read")})}
    /\ newsStats = {}
    /\ hotNews = EmptyBag
    /\ lastToggle = [k \in (1..MaxUserId) \X (1..MaxNewsId) |-> "none"]
    /\ profiles \in {{}, {ProfileRow(1, 1, 0, {})}, {ProfileRow(1, 1, 5, {})},
                     {ProfileRow(1, 1, 5, {1})}}
    /\ preferences = {}
    /\ nextProfileId = 2
    /\ InitWeightIdle
    /\ InitTrendIdle
    /\ hotCache = [k \in HotKeys |-> NoList]
    /\ lastRec = NoRec
    /\ InitTrackIdle
    /\ InitPwIdle

RecPages == {<<1, 20>>, <<1, 1>>, <<2, 1>>}

NextRecommend ==
    \E pg \in RecPages, diversify \in BOOLEAN :
        GetRecommendations(1, pg[1], pg[2], NoCategory, diversify)

SpecRecommend == InitRecommend /\ [][NextRecommend]_vars

\* cold start: two seeded users without profiles, two articles, the behaviours
\* that make the collaborative recall of user 1 return article 2
ProfileUpdates ==
    {[preferred_categories |-> {1}], [quality_threshold |-> 0],
     [preferred_categories |-> {}, quality_threshold |-> 5]}
OnboardingCategories == {{1}, {1, 2}}

InitColdStart ==
    /\ now = 0
    /\ users = {SeedUser(1, "a@x", "alice"), SeedUser(2, "b@x", "bob")}
    /\ nextUserId = 3
    /\ refreshStore = [e \in Emails |-> NoEntry]
    /\ blacklist = {}
    /\ refreshLog = [e \in Emails |-> <<>>]
    /\ accessIssued = {}
    /\ resp = Idle
    /\ news = {RankedNews(1, ArticleKinds[1]), RankedNews(2, ArticleKinds[3])}
    /\ nextNewsId = 3
    /\ behaviors = SetToBag({BehaviorRow(1, 1, "like"), BehaviorRow(2, 1, "like"),
                              BehaviorRow(2, 2, "read")})
    /\ newsStats = {}
    /\ hotNews = EmptyBag
    /\ lastToggle = [k \in (1..MaxUserId) \X (1..MaxNewsId) |-> "none"]
    /\ InitOther

NextColdStart ==
    \/ \E u \in UserIds : CreateUserProfile(u)
    \/ \E u \in UserIds, d \in ProfileUpdates : UpdateUserProfile(u, d)
    \/ \E u \in UserIds, c \in OnboardingCategories : SetupUserPreferences(u, c)
    \/ GetRecommendations(1, 1, 20, NoCategory, FALSE)

SpecColdStart == InitColdStart /\ [][NextColdStart]_vars

\* latest news: three articles with distinct publication dates, one of
\* category 1 and two of category 2, published and unpublished by update_news
LatestPages == {1, 2, 3}
LatestLimits == {1, 2, 20}
LatestCategories == {None, "technology", "sports", "unknown"}

InitLatest ==
    /\ now = 0
    /\ users = {SeedUser(1, "a@x", "alice"), SeedUser(2, "b@x", "bob")}
    /\ nextUserId = 3
    /\ refreshStore = [e \in Emails |-> NoEntry]
    /\ blacklist = {}
    /\ refreshLog = [e \in Emails |-> <<>>]
    /\ accessIssued = {}
    /\ resp = Idle
    /\ news = {RankedNews(1, ArticleKinds[1]), RankedNews(2, ArticleKinds[3]),
               RankedNews(3, ArticleKinds[4])}
    /\ nextNewsId = 4
    /\ behaviors = EmptyBag
    /\ newsStats = {}
    /\ hotNews = EmptyBag
    /\ lastToggle = [k \in (1..MaxUserId) \X (1..MaxNewsId) |-> "none"]
    /\ InitOther

NextLatest ==
    \/ \E page \in LatestPages, limit \in LatestLimits, category \in LatestCategories :
          GetLatestNewsPage(page, limit, category)
    \/ \E n \in 1..3, is_published \in BOOLEAN : UpdateNewsCommit(n, is_published)
    \/ InvalidateKeys

SpecLatest == InitLatest /\ [][NextLatest]_vars

\* batches of user 1 while the cache may fail to answer at any position
NextBatch ==
    \E items \in BehaviorBatchRequest :
        \E cache_failures \in SUBSET (1..Len(items)) :
            TrackBehaviorsBatch(1, items, cache_failures)

SpecBatch == InitLike /\ [][NextBatch]_vars

\* published articles and the category filter: user 1 with or without a warm
\* profile, an article of each category, the behaviours that make the
\* collaborative recall of user 1 return article 2; articles are published
\* and unpublished by update_news
InitPublished ==
    /\ now = 0
    /\ users = {SeedUser(1, "a@x", "alice"), SeedUser(2, "b@x", "bob")}
    /\ nextUserId = 3
    /\ refreshStore = [e \in Emails |-> NoEntry]
    /\ blacklist = {}
    /\ refreshLog = [e \in Emails |-> <<>>]
    /\ accessIssued = {}
    /\ resp = Idle
    /\ news = {RankedNews(1, ArticleKinds[1]), RankedNews(2, ArticleKinds[3])}
    /\ nextNewsId = 3
    /\ behaviors = SetToBag({BehaviorRow(1, 1, "like"), BehaviorRow(2, 1, "like"),
                              BehaviorRow(2, 2, "read")})
    /\ newsStats = {}
    /\ hotNews = EmptyBag
    /\ lastToggle = [k \in (1..MaxUserId) \X (1..MaxNewsId) |-> "none"]
    /\ profiles \in {{}, {ProfileRow(1, 1, 5, {1, 2})}}
    /\ preferences = {}
    /\ nextProfileId = 2
    /\ hotCache = [k \in HotKeys |-> NoList]
    /\ lastRec = NoRec
    /\ InitTrackIdle
    /\ InitPwIdle
    /\ InitWeightIdle
    /\ InitTrendIdle

NextPublished ==
    \/ \E c \in RequestCategories : GetRecommendations(1, 1, 20, c, FALSE)
    \/ \E n \in 1..MaxRecNews, is_published \in BOOLEAN : UpdateNewsCommit(n, is_published)
    \/ InvalidateKeys

SpecPublished == InitPublished /\ [][NextPublished]_vars

\* recent activity: the logged-in user of the fixtures and one article; every
\* way of tracking a behaviour
NextRecent ==
    \/ \E u \in UserIds, item \in BatchItem : TrackBehavior(u, item)
    \/ \E u \in UserIds, items \in BehaviorBatchRequest : TrackBehaviorsBatch(u, items, {})
    \/ \E u \in UserIds, n \in 1..MaxNewsId : TrackImpression(u, n)
    \/ \E t \in Bearer, n \in 1..MaxNewsId : TrackClick(t, n)
    \/ \E u \in UserIds, n \in 1..MaxNewsId : TrackRead(u, n)
    \/ \E u \in UserIds, n \in 1..MaxNewsId : TrackInteraction(u, n, "share")

SpecRecent == InitSession /\ [][NextRecent]_vars

\* diversity re-ranking: deduplicated candidates of the fresh recall, articles
\* of category 1 followed by articles of category 2, three days old
MaxPerCategory == 27
SecondCounts == {0, 6, MaxPerCategory - 1}
TrendingScores == {0, 5}

RerankNews(id, category_id, trending_score) ==
    RankedNews(id, [category_id |-> category_id, is_published |-> TRUE, is_featured |-> FALSE,
                    is_breaking |-> FALSE, published_at |-> -72,
                    trending_score |-> trending_score, popularity_score |-> 0,
                    quality_score |-> 0])

RerankCandidates(k1, k2, trending_score) ==
    [i \in 1..(k1 + k2) |->
        [news |-> IF i <= k1 THEN RerankNews(i, 1, 0) ELSE RerankNews(i, 2, trending_score),
         strategy |-> "fresh"]]

InitDiversity ==
    /\ InitAuth /\ InitNewsEmpty /\ InitRecIdle /\ InitTrackIdle /\ InitPwIdle /\ InitTrendIdle
    /\ weighed = [behavior |-> NoBehavior, weight |-> NoWeight]
    /\ lastLatest = NoLatest
    /\ deletedTokens = {}
    /\ calls = [c \in Callers |-> NoCall]
    /\ diversity \in {[NoDiversity EXCEPT !.candidates = RerankCandidates(k1, k2, t)] :
                         k1 \in 0..MaxPerCategory, k2 \in SecondCounts, t \in TrendingScores}

SpecDiversity == InitDiversity /\ [][RankDiversified]_vars

\* deletion and re-registration of one email address, with the tokens issued
\* before the deletion presented afterwards
NextRevive ==
    \/ Tick
    \/ \E u \in Usernames : Register("a@x", u, "Pw1")
    \/ Login("a@x", "Pw1")
    \/ \E t \in Presentable : RefreshToken(t)
    \/ \E t \in Presentable : GetCurrentUserInfo(t)
    \/ \E t \in Presentable : DeleteAccount(t)

SpecRevive == Init /\ [][NextRevive]_vars

\* toggles of two requests at a time: two users and one article
NextRace ==
    \/ \E c \in Callers, n \in 1..MaxNewsId, u \in UserIds : ToggleLikeQuery(c, n, u)
    \/ \E c \in Callers : ToggleLikeCommit(c)
    \/ \E c \in Callers : ToggleLikeReturn(c)
    \/ \E c \in Callers, n \in 1..MaxNewsId, u \in UserIds : ToggleCollectQuery(c, n, u)
    \/ \E c \in Callers : ToggleCollectCommit(c)

SpecRace == InitLike /\ [][NextRace]_vars

\* the like counter: the logged-in user of the fixtures and one article; likes
\* by the toggle, by recommendation feedback and by batch tracking
LikeBatches ==
    {<<[news_id |-> 1, behavior_type |-> "like"]>>,
     <<[news_id |-> 1, behavior_type |-> "click"], [news_id |-> 1, behavior_type |-> "like"]>>}

NextCounter ==
    \/ \E n \in 1..MaxNewsId, u \in UserIds : ToggleLike(n, u)
    \/ \E t \in Bearer, n \in 1..MaxNewsId, f \in {"like", "dislike"} :
          SubmitRecommendationFeedback(t, n, f)
    \/ \E u \in UserIds, items \in LikeBatches : TrackBehaviorsBatch(u, items, {})

SpecCounter == InitSession /\ [][NextCounter]_vars

\* ================================================================ claims
LogOf(e) == {refreshLog[e][i] : i \in 1..Len(refreshLog[e])}

\* C1 (as stated): once refresh token A and later refresh token B have been
\* issued for the same email, verify_refresh_token(A) returns absent.
C1_EarlierTokenFails ==
    \A e \in Emails : \A i \in 1..Len(refreshLog[e]) : \A j \in (i+1)..Len(refreshLog[e]) :
        VerifyRefreshToken(refreshLog[e][i]) = None

\* C1 (amended): a refresh token of a user verifies only if it is the same
\* string as the most recently issued one; an earlier token A fails as soon
\* as a later token B with a different string has been issued.
C1_SingleValidity ==
    \A e \in Emails : \A i \in 1..Len(refreshLog[e]) :
        /\ VerifyRefreshToken(refreshLog[e][i]) # None
              => refreshLog[e][i] = refreshLog[e][Len(refreshLog[e])]
        /\ \A j \in (i+1)..Len(refreshLog[e]) :
              refreshLog[e][i] # refreshLog[e][j]
                 => VerifyRefreshToken(refreshLog[e][i]) = None

C1_Witness ==
    \E e \in Emails :
        /\ Len(refreshLog[e]) >= 2
        /\ refreshLog[e][1] # refreshLog[e][2]
        /\ VerifyToken(refreshLog[e][1], "refresh") # None
        /\ VerifyRefreshToken(refreshLog[e][1]) = None
        /\ VerifyRefreshToken(refreshLog[e][2]) # None

\* C2: POST /auth/refresh answers 200 with a new token pair when the presented
\* token is the refresh token currently stored for its user, and answers 401,
\* issuing and storing nothing, for every other token.
IsCurrentRefreshToken(t) ==
    /\ t.sig = "ok" /\ t.type = "refresh" /\ t.exp >= NowSeconds
    /\ refreshStore[t.sub].val = t /\ now < refreshStore[t.sub].expireAt
    /\ \E u \in users : u.email = t.sub

C2_RefreshStep ==
    \A t \in Presentable :
        RefreshToken(t) =>
            IF IsCurrentRefreshToken(t)
            THEN /\ resp'.status = 200
                 /\ resp'.access # NoToken /\ resp'.refresh # NoToken
            ELSE /\ resp'.status = 401
                 /\ UNCHANGED <<refreshStore, refreshLog, accessIssued>>

C2_RefreshRejectsWith401 == [][C2_RefreshStep]_vars

\* C3: a guarded route answers 401 and changes no stored state when the bearer
\* token is missing, invalid, expired or blacklisted, and passes the
\* dependency when it is an unexpired access token of an active user.
Rejected(t) ==
    \/ t = NoToken
    \/ t.sig # "ok"
    \/ t.type # "access"
    \/ t.exp < NowSeconds
    \/ \E b \in blacklist : b.token = t /\ now < b.expireAt

Accepted(t) ==
    /\ ~ Rejected(t)
    /\ \E u \in users : u.email = t.sub /\ u.is_active

GuardedRoute(t) ==
    \/ GetCurrentUserInfo(t)
    \/ Logout(t)
    \/ DeleteAccount(t)
    \/ \E n \in 1..MaxNewsId :
          LikeNews(t, n) \/ CollectNews(t, n) \/ ShareNews(t, n) \/ TrackClick(t, n)
    \/ \E n \in 1..MaxNewsId, f \in {"like", "dislike"} : SubmitRecommendationFeedback(t, n, f)

C3_Step ==
    \A t \in Presentable \cup {NoToken} :
        GuardedRoute(t) =>
            /\ Rejected(t) =>
                  /\ resp'.status = 401
                  /\ UNCHANGED <<users, refreshStore, blacklist, news, behaviors,
                                 newsStats, hotNews>>
            /\ Accepted(t) => resp'.status # 401

C3_GuardedRoutes == [][C3_Step]_vars

C3_Witness ==
    /\ resp.status = 401
    /\ \E t \in accessIssued :
          /\ t.exp >= NowSeconds
          /\ \E b \in blacklist : b.token = t /\ now < b.expireAt
          /\ \E u \in users : u.email = t.sub /\ u.is_active

\* C4: while its blacklist entry exists, a token is rejected by
\* validate_user_session and by verify_refresh_token.
C4_BlacklistedRejectedEverywhere ==
    \A t \in Presentable :
        (\E b \in blacklist : b.token = t /\ now < b.expireAt)
           => ValidateUserSession(t) = {} /\ VerifyRefreshToken(t) = None

\* C5: no two users share an email or a username; a register call whose email
\* or username is taken answers 400 and creates no user, any other register
\* call answers 201 and creates exactly that user.
UniqueUsers ==
    \A u \in users : \A v \in users :
        u # v => u.email # v.email /\ u.username # v.username /\ u.id # v.id

C5_RegisterStep ==
    \A e \in Emails, n \in Usernames, p \in RegisterPasswords :
        Register(e, n, p) =>
            IF \E u \in users : u.email = e \/ u.username = n
            THEN resp'.status = 400 /\ users' = users
            ELSE /\ resp'.status = 201
                 /\ \E u \in users' : /\ u.email = e /\ u.username = n
                                      /\ users' = users \cup {u} /\ u \notin users

C5_RegistrationUniqueness == []UniqueUsers /\ [][C5_RegisterStep]_vars

C5_Witness ==
    /\ resp.status = 400
    /\ Cardinality(users) = 1

\* C6: login with an existing user's email and the correct password answers
\* 200 with an access and a refresh token and stores that refresh token as the
\* user's current one; any other login answers 401, returns no token and
\* leaves every stored refresh token unchanged.
C6_LoginStep ==
    \A e \in Emails, p \in Passwords :
        Login(e, p) =>
            IF \E u \in users : u.email = e /\ chosenPassword[e] = p
            THEN /\ resp'.status = 200
                 /\ resp'.access.sub = e /\ resp'.access.type = "access"
                 /\ resp'.access.sig = "ok"
                 /\ resp'.refresh.sub = e /\ resp'.refresh.type = "refresh"
                 /\ resp'.refresh.sig = "ok"
                 /\ refreshStore'[e].val = resp'.refresh
                 /\ now < refreshStore'[e].expireAt
            ELSE /\ resp'.status = 401
                 /\ resp'.access = NoToken /\ resp'.refresh = NoToken
                 /\ refreshStore' = refreshStore

C6_LoginRoundTrip == [][C6_LoginStep]_vars


\* C7: after a successful logout of a user no refresh token issued to that
\* user verifies, and none verifies again until the user logs in again.
NoneVerifies(e) == \A r \in LogOf(e) : VerifyRefreshToken(r) = None

C7_LogoutStep ==
    /\ \A t \in Presentable \cup {NoToken} :
          (Logout(t) /\ resp'.status = 200) => NoneVerifies(t.sub)'
    /\ \A e \in Emails :
          (NoneVerifies(e) /\ ~ \E p \in Passwords : Login(e, p) /\ resp'.status = 200)
             => NoneVerifies(e)'

C7_LogoutInvalidatesRefresh == [][C7_LogoutStep]_vars

C7_Witness ==
    \E e \in Emails :
        /\ refreshStore[e] = NoEntry
        /\ \E r \in LogOf(e) : VerifyToken(r, "refresh") # None
        /\ NoneVerifies(e)

\* C8: a successful DELETE /users/me removes the user row, and from then on,
\* as long as no account is registered, login with that email answers 401.
C8_DeleteStep ==
    /\ \A t \in Presentable \cup {NoToken} :
          (DeleteAccount(t) /\ resp'.status = 200) =>
              ~ \E u \in users' : u.email = t.sub
    /\ \A e \in Emails :
          (/\ ~ \E u \in users : u.email = e
           /\ ~ \E n \in Usernames, p \in RegisterPasswords : Register(e, n, p))
             => ~ \E u \in users' : u.email = e
    /\ \A e \in Emails, p \in Passwords :
          (Login(e, p) /\ ~ \E u \in users : u.email = e) => resp'.status = 401

C8_DeletionFinality == [][C8_DeleteStep]_vars

C8_Witness ==
    \E e \in Emails :
        /\ resp.status = 200
        /\ Len(refreshLog[e]) >= 1
        /\ ~ \E u \in users : u.email = e

\* C9: toggle_like by a user on an article they have not liked returns
\* liked=true and raises like_count by exactly 1; the same user's next
\* toggle_like returns liked=false and lowers like_count by exactly 1; in
\* every reachable state like_count >= 0.
LikeCountOf(news_id) == CHOOSE c \in {n.like_count : n \in GetNewsById(news_id)} : TRUE

LikeCountNonNegative == \A n \in news : n.like_count >= 0

C9_ToggleStep ==
    \A n \in 1..MaxNewsId, u \in 1..MaxUserId :
        (ToggleLike(n, u) /\ GetNewsById(n) # {}) =>
            /\ ~ BagIn(BehaviorRow(u, n, "like"), behaviors)
                  => /\ resp'.liked = TRUE
                     /\ LikeCountOf(n)' = LikeCountOf(n) + 1
            /\ lastToggle[<<u, n>>] = "liked"
                  => /\ resp'.liked = FALSE
                     /\ LikeCountOf(n)' = LikeCountOf(n) - 1

C9_LikeToggle == []LikeCountNonNegative /\ [][C9_ToggleStep]_vars

\* C10: a create_news call without an explicit slug, for a title an existing
\* article already carries, succeeds with a slug no other article has; a call
\* with an explicit slug that an article already has is rejected and stores
\* nothing; no two articles share a slug.
UniqueSlugs == \A a \in news : \A b \in news : a # b => a.slug # b.slug

C10_CreateStep ==
    \A t \in Titles, su \in SourceUrls :
        /\ (/\ CreateNews(t, NoSlug, su)
            /\ \E a \in news : a.title = t
            /\ ~ \E a \in news : a.source_url = su)
              => /\ resp'.status = 200
                 /\ \E a \in news' \ news : a.title = t /\ \A b \in news : b.slug # a.slug
        /\ \A a \in news :
              CreateNews(t, a.slug, su) => resp'.status = 400 /\ news' = news

C10_SlugUniqueness == []UniqueSlugs /\ [][C10_CreateStep]_vars

\* C11: in the list returned by get_recommendations every news id appears at
\* most once, the entry of an id carries the strategy tag of the id's first
\* occurrence in recall order, and recall order is hot, featured, fresh for a
\* cold start and content, collaborative, hot, fresh otherwise.
StrategyRank(cold, strategy) ==
    IF cold
    THEN CASE strategy = "hot" -> 1 [] strategy = "featured" -> 2
           [] strategy = "fresh" -> 3 [] OTHER -> 0
    ELSE CASE strategy = "content" -> 1 [] strategy = "collaborative" -> 2
           [] strategy = "hot" -> 3 [] strategy = "fresh" -> 4 [] OTHER -> 0

FirstOccurrence(candidates, news_id) ==
    CHOOSE k \in 1..Len(candidates) :
        /\ candidates[k].news_id = news_id
        /\ \A j \in 1..(k - 1) : candidates[j].news_id # news_id

C11_Deduplicated ==
    lastRec # NoRec =>
        /\ \A i, j \in 1..Len(lastRec.items) :
              i # j => lastRec.items[i].news_id # lastRec.items[j].news_id
        /\ \A i \in 1..Len(lastRec.items) :
              /\ \E k \in 1..Len(lastRec.candidates) :
                    lastRec.candidates[k].news_id = lastRec.items[i].news_id
              /\ lastRec.items[i].recall_strategy =
                    lastRec.candidates[FirstOccurrence(lastRec.candidates,
                                                       lastRec.items[i].news_id)].strategy
        /\ \A i, j \in 1..Len(lastRec.candidates) :
              /\ StrategyRank(IsColdStart(lastRec.user_id), lastRec.candidates[i].strategy) > 0
              /\ i < j => StrategyRank(IsColdStart(lastRec.user_id),
                                       lastRec.candidates[i].strategy)
                          <= StrategyRank(IsColdStart(lastRec.user_id),
                                          lastRec.candidates[j].strategy)

C11_Witness ==
    /\ Len(lastRec.items) >= 2
    /\ ~ IsColdStart(lastRec.user_id)
    /\ \E i \in 1..Len(lastRec.items) :
          /\ lastRec.items[i].recall_strategy = "collaborative"
          /\ \E k \in 1..Len(lastRec.candidates) :
                /\ lastRec.candidates[k].news_id = lastRec.items[i].news_id
                /\ lastRec.candidates[k].strategy = "hot"

\* C12: for a cold-start user, a get_recommendations call with diversify=false
\* that follows a call with the same page parameters at the same clock
\* reading returns the same article ids in the same order, also when the
\* earlier call filled the hot-news cache and the later one is served from it.
ItemIds(items) == [i \in 1..Len(items) |-> items[i].news_id]

C12_SameListStep ==
    \A pg \in RecPages :
        (/\ GetRecommendations(1, pg[1], pg[2], NoCategory, FALSE)
         /\ IsColdStart(1)
         /\ lastRec.user_id = 1 /\ lastRec.page = pg[1] /\ lastRec.page_size = pg[2]
         /\ lastRec.diversify = FALSE /\ lastRec.at = now)
            => ItemIds(lastRec'.items) = ItemIds(lastRec.items)

C12_Deterministic == [][C12_SameListStep]_vars

\* ---------------------------------------------------------------- C13
\* the items of a batch that name an article of the store
ValidIndices(items) == {i \in 1..Len(items) : GetNewsById(items[i].news_id) # {}}
SeqToSet(seq) == {seq[i] : i \in 1..Len(seq)}

RECURSIVE RowsOf(_, _, _)
RowsOf(user_id, items, idxs) ==
    IF idxs = {} THEN EmptyBag
    ELSE LET i == CHOOSE x \in idxs : TRUE IN
         AddRow(RowsOf(user_id, items, idxs \ {i}),
                BehaviorRow(user_id, items[i].news_id, items[i].behavior_type))

\* C13: when exactly one item of a batch names an article that the store
\* rejects, track_behaviors_batch returns its result, the result lists that
\* item's index (counted from 0) in failed_indices, and every other item is
\* persisted and counted in total_processed.
C13_BatchStep ==
    \A u \in UserIds, items \in BehaviorBatchRequest :
       (/\ TrackBehaviorsBatch(u, items, {})
        /\ Cardinality(ValidIndices(items)) = Len(items) - 1)
       => /\ ~ lastBatch'.raised
          /\ resp'.status = 200
          /\ \A i \in (1..Len(items)) \ ValidIndices(items) :
                (i - 1) \in SeqToSet(lastBatch'.failed_indices)
          /\ lastBatch'.total_processed = Len(items) - 1
          /\ behaviors' = behaviors (+) RowsOf(u, items, ValidIndices(items))

C13_BatchPartialFailure == [][C13_BatchStep]_vars

\* ---------------------------------------------------------------- C14
\* C14: change_password with a wrong current password returns failure and
\* leaves the password hash and the stored refresh token unchanged; with the
\* correct current password it returns success, afterwards the new password
\* and no other authenticates, the user has no stored refresh token, and no
\* refresh token issued to the user before the change verifies.
C14_ChangeStep ==
    \A u \in users, c \in Passwords, n \in ValidPasswords :
       ChangePassword(u, c, n) =>
          IF c # chosenPassword[u.email]
          THEN /\ ~ lastChange'.returned
               /\ users' = users
               /\ refreshStore' = refreshStore
          ELSE /\ lastChange'.returned
               /\ \A p \in Passwords : (AuthenticateUser(u.email, p) # {})' <=> (p = n)
               /\ refreshStore'[u.email] = NoEntry
               /\ \A i \in 1..Len(refreshLog[u.email]) :
                     VerifyRefreshToken(refreshLog[u.email][i])' = None

C14_PasswordChange == [][C14_ChangeStep]_vars

\* ---------------------------------------------------------------- C15
\* C15: in every state reached by creating users, articles, behaviors,
\* profiles and preferences and by delete_user and delete_news, every behavior
\* row names an existing user and an existing article, every profile an
\* existing user, and every preference an existing profile.
C15_CascadeOnDeletion ==
    /\ \A b \in BagToSet(behaviors) :
          (\E u \in users : u.id = b.user_id) /\ GetNewsById(b.news_id) # {}
    /\ \A p \in profiles : \E u \in users : u.id = p.user_id
    /\ \A q \in preferences : \E p \in profiles : p.id = q.profile_id

\* two users had a profile each and two articles were created; one user and
\* one article have been deleted, the other user keeps behaviors, a profile
\* and a preference
C15_Witness ==
    /\ nextUserId = 3 /\ Cardinality(users) = 1
    /\ nextNewsId = 3 /\ Cardinality(news) = 1
    /\ nextProfileId = 3 /\ Cardinality(profiles) = 1
    /\ preferences # {}
    /\ behaviors # EmptyBag

\* ---------------------------------------------------------------- C16
\* the multipliers of the statement, in tenths
DurationMultiplier(b) ==
    IF b.behavior_type = "read" /\ b.duration # NoNumber
    THEN (IF b.duration > 300 THEN 20 ELSE IF b.duration > 120 THEN 15
          ELSE IF b.duration < 10 THEN 3 ELSE 10)
    ELSE 10
PercentageMultiplier(b) ==
    IF b.read_percentage # NoNumber
    THEN (IF b.read_percentage > 80 THEN 15 ELSE IF b.read_percentage < 20 THEN 5 ELSE 10)
    ELSE 10

\* C16: engagement_weight is the base weight of the type, times the duration
\* multiplier of a read with a recorded duration (x2.0 over 300, x1.5 over
\* 120, x0.3 under 10), times the percentage multiplier of a recorded
\* read_percentage (x1.5 over 80, x0.5 under 20), whether or not a duration
\* multiplier applied.
C16_EngagementWeight ==
    weighed.weight # NoWeight =>
        weighed.weight = BaseWeight(weighed.behavior.behavior_type)
                           * DurationMultiplier(weighed.behavior)
                           * PercentageMultiplier(weighed.behavior)

\* ---------------------------------------------------------------- C17
\* C17: a successful login sets the user's last-login timestamp to the time of
\* the login and raises the user's login_count by exactly 1; a failed login
\* changes neither.
C17_LoginStep ==
    \A e \in Emails, p \in Passwords :
        Login(e, p) =>
            IF resp'.status = 200
            THEN \E u \in users : /\ u.email = e
                                   /\ users' = UpdateLastLogin(u)
            ELSE users' = users

C17_LoginBookkeeping == [][C17_LoginStep]_vars

\* ---------------------------------------------------------------- C18
\* C18: a request with a valid, unexpired, non-blacklisted access token of a
\* user whose is_active flag is false is answered 400 by the active-user
\* dependency, not the 401 of a missing or invalid token.
C18_ActiveStep ==
    \A t \in Bearer :
       (/\ RequireActiveUser(t)
        /\ t # NoToken
        /\ VerifyToken(t, "access") # None
        /\ ~ IsTokenBlacklisted(t)
        /\ \E u \in GetUserByEmail(VerifyToken(t, "access")) : ~ u.is_active)
       => resp'.status = 400

C18_InactiveUser400 == [][C18_ActiveStep]_vars

\* ---------------------------------------------------------------- C19
\* the user of the token has logged out: no refresh token is stored for it
LoggedOut(t) == t.sub \in Emails /\ refreshStore[t.sub] = NoEntry

\* C19: logout writes no blacklist entry and leaves the caller's access token
\* accepted; after the logout every guarded route still accepts an access
\* token issued before it, until the token expires, while the user is active
\* and the token is not blacklisted.
C19_Step ==
    \A t \in accessIssued :
       /\ (Logout(t) /\ Accepted(t)) =>
             /\ resp'.status = 200
             /\ blacklist' = blacklist
             /\ LoggedOut(t)'
             /\ Accepted(t)'
       /\ (GuardedRoute(t) /\ Accepted(t) /\ LoggedOut(t)) => resp'.status # 401

C19_LogoutKeepsAccessTokens == [][C19_Step]_vars

\* after the logout a like by the same access token was answered 200
C19_Witness ==
    /\ resp.status = 200 /\ resp.news_id = 1 /\ resp.user_id = 1
    /\ \E t \in accessIssued : Accepted(t) /\ LoggedOut(t)

\* ---------------------------------------------------------------- C20
\* C20: a get_trending_news call that starts after a write has returned gives
\* a list computed from the store as of that write or later, never a list
\* cached from an earlier version, whatever calls ran beside the write.
C20_TrendingFresh == lastTrending.ver >= lastTrending.started

\* ---------------------------------------------------------------- C21
\* the confidence of the profile of a user, in tenths; NoNumber without a profile
ConfidenceOf(rows, user_id) ==
    IF \E p \in rows : p.user_id = user_id
    THEN (CHOOSE p \in rows : p.user_id = user_id).profile_confidence
    ELSE NoNumber

\* C21: get_recommendations uses the cold-start recall exactly when the user
\* has no profile or a profile of confidence below 0.3; a profile created
\* lazily by a profile fetch or a profile update has confidence 0 and the
\* user stays cold-start under profile updates; setup_user_preferences sets
\* the confidence to 0.5, and from then on the user is never cold-start again.
C21_Step ==
    \A u \in UserIds :
        /\ GetRecommendations(u, 1, 20, NoCategory, FALSE)
              => (lastRec'.is_cold_start <=> ConfidenceOf(profiles, u) < 3)
        /\ (/\ ConfidenceOf(profiles, u) = NoNumber
            /\ (CreateUserProfile(u) \/ \E d \in ProfileUpdates : UpdateUserProfile(u, d)))
              => ConfidenceOf(profiles', u) = 0
        /\ (/\ ConfidenceOf(profiles, u) < 3
            /\ ~ \E c \in OnboardingCategories : SetupUserPreferences(u, c))
              => ConfidenceOf(profiles', u) < 3
        /\ (\E c \in OnboardingCategories : SetupUserPreferences(u, c))
              => ConfidenceOf(profiles', u) = 5
        /\ ConfidenceOf(profiles, u) >= 3 => ConfidenceOf(profiles', u) >= 3

C21_ColdStartTransitions == [][C21_Step]_vars

\* a warm call of a user whose profile was created lazily, edited and then
\* set up by onboarding
C21_Witness ==
    /\ lastRec # NoRec
    /\ ~ lastRec.is_cold_start
    /\ \E p \in profiles :
          /\ p.user_id = lastRec.user_id
          /\ p.profile_confidence = 5
          /\ p.quality_threshold = 0
    /\ \E p \in profiles : p.user_id # lastRec.user_id /\ p.profile_confidence = 0

\* ---------------------------------------------------------------- C22
\* the behaviour rows of one user
RowsOfUser(bag, user_id) ==
    [r \in {q \in BagToSet(bag) : q.user_id = user_id} |-> CopiesIn(r, bag)]

ItemOfRow(r) == [news_id |-> r.news_id, behavior_type |-> r.behavior_type]

Reversed(seq) == [i \in 1..Len(seq) |-> seq[Len(seq) + 1 - i]]

MostRecent(list) == SubSeq(list, 1, IF Len(list) < 100 THEN Len(list) ELSE 100)

\* C22: the recent-activity list of a user holds the min(100, n) most recent
\* of the user's n tracked behaviours, newest first: every step that tracks
\* behaviours of the user (a single behaviour, the items of a batch in their
\* order, an impression, a click, a read or an interaction) puts them at the
\* front of the list and keeps the first 100 entries, and no other step
\* changes the list; the list never holds more than 100 entries.
C22_Step ==
    \A u \in UserIds :
        LET added == RowsOfUser(behaviors', u) (-) RowsOfUser(behaviors, u) IN
        /\ Len(recentBehaviors'[u]) <= 100
        /\ \A items \in BehaviorBatchRequest :
              TrackBehaviorsBatch(u, items, {}) =>
                  recentBehaviors'[u] =
                      MostRecent((IF lastBatch'.raised THEN <<>> ELSE Reversed(items))
                                 \o recentBehaviors[u])
        /\ (~ \E items \in BehaviorBatchRequest : TrackBehaviorsBatch(u, items, {})) =>
              IF BagCardinality(added) = 1
              THEN \E r \in BagToSet(added) :
                      recentBehaviors'[u] = MostRecent(<<ItemOfRow(r)>> \o recentBehaviors[u])
              ELSE recentBehaviors'[u] = recentBehaviors[u]

C22_RecentActivity == [][C22_Step]_vars

\* ---------------------------------------------------------------- C23
\* 0.5 * score - 0.5 * (0.1 * the number of candidates of the category of
\* reranked[j] among the first i - 1), in units of 1/14400000
MmrAt(reranked, i, j) ==
    reranked[j].score
    - 720000 * Cardinality({k \in 1..(i - 1) :
                  reranked[k].news.category_id = reranked[j].news.category_id})

C24_Step ==
    \A t \in deletedTokens :
        /\ RefreshToken(t) => resp'.status # 200
        /\ GetCurrentUserInfo(t) => resp'.status = 401
        /\ DeleteAccount(t) => resp'.status = 401

C24_NoTokenSurvivesDeletion == [][C24_Step]_vars

\* ---------------------------------------------------------------- C25
\* C25: under every interleaving of toggle_like calls, and of toggle_collect
\* calls, also of two calls by one user on one article, the store never holds
\* more than one like row, or more than one bookmark row, for a pair of user
\* and article.
C25_OneRowPerPair ==
    \A r \in BagToSet(behaviors) :
        r.behavior_type \in {"like", "bookmark"} => CopiesIn(r, behaviors) <= 1

\* ---------------------------------------------------------------- C26
\* the number of like rows stored for an article
LikeRows(news_id) ==
    BagCardinality([r \in {q \in BagToSet(behaviors) :
                              q.news_id = news_id /\ q.behavior_type = "like"}
                       |-> CopiesIn(r, behaviors)])

\* C26: in every state reached by toggle_like calls, recommendation-feedback
\* submissions and batch-tracked behaviours executed one at a time, the
\* like_count of an article equals the number of like rows stored for it.
C26_LikeCounterConsistent == \A n \in news : n.like_count = LikeRows(n.id)

\* ---------------------------------------------------------------- C27
\* the article an item of a recommendation names
NewsOfItem(item) == {n \in news : n.id = item.news_id}

\* C27: every item returned by get_recommendations, for cold-start and warm
\* users and whichever recall strategy or cache path produced it, is an
\* article that exists and has is_published = true at the time of the call.
C27_Step ==
    \A c \in RequestCategories :
        GetRecommendations(1, 1, 20, c, FALSE) =>
            \A i \in 1..Len(lastRec'.items) :
                /\ NewsOfItem(lastRec'.items[i]) # {}
                /\ \A n \in NewsOfItem(lastRec'.items[i]) : n.is_published

C27_OnlyPublished == [][C27_Step]_vars

\* ---------------------------------------------------------------- C28
\* C28: when a get_recommendations request carries a category_id, every
\* returned item belongs to that category, for cold-start users and for warm
\* users alike (content, collaborative, hot and fresh recall).
C28_Step ==
    \A c \in RequestCategories \ {NoCategory} :
        GetRecommendations(1, 1, 20, c, FALSE) =>
            \A i \in 1..Len(lastRec'.items) :
                \A n \in NewsOfItem(lastRec'.items[i]) : n.category_id = c

C28_CategoryFilter == [][C28_Step]_vars

\* ---------------------------------------------------------------- C29
\* the positions of a batch that its result lists as failed
FailedPositions(result) == {result.failed_indices[k] + 1 : k \in 1..Len(result.failed_indices)}

\* C29: for every batch, whichever items fail and for whatever reason
\* (including a failing cache update), the result of track_behaviors_batch
\* satisfies total_processed + total_failed = number of submitted items,
\* failed_indices has total_failed distinct entries, success holds iff
\* total_failed = 0, and no item listed in failed_indices is persisted.
C29_Step ==
    \A items \in BehaviorBatchRequest :
        \A cache_failures \in SUBSET (1..Len(items)) :
            (TrackBehaviorsBatch(1, items, cache_failures) /\ ~ lastBatch'.raised)
            => /\ lastBatch'.total_processed + lastBatch'.total_failed = Len(items)
               /\ Cardinality(FailedPositions(lastBatch')) = lastBatch'.total_failed
               /\ Len(lastBatch'.failed_indices) = lastBatch'.total_failed
               /\ lastBatch'.success <=> (lastBatch'.total_failed = 0)
               /\ behaviors' = behaviors (+)
                     RowsOf(1, items, (1..Len(items)) \ FailedPositions(lastBatch'))

C29_BatchAccounting == [][C29_Step]_vars

\* ---------------------------------------------------------------- C30
\* the published articles of a category by published date descending; the
\* publication dates of the articles are distinct
LatestRanking(category) ==
    CHOOSE l \in OrderByDesc(
                    {n \in news : /\ n.is_published
                                  /\ \A c \in NewsCategories :
                                        c.name = category => n.category_id = c.id},
                    PublishedKey) : TRUE

\* C30: for every page p >= 1 and limit L, GET /news/latest returns the
\* published articles ranked (p-1)*L+1 .. p*L by published date descending
\* (fewer only when the store holds fewer), so that walking pages 1, 2, ...
\* enumerates every published article of the requested category exactly once.
C30_Step ==
    \A page \in LatestPages, limit \in LatestLimits,
       category \in {None} \cup {c.name : c \in NewsCategories} :
        GetLatestNewsPage(page, limit, category) =>
            lastLatest'.items =
                IdsOf(Slice(LatestRanking(category), (page - 1) * limit, page * limit))

C30_LatestPagination == [][C30_Step]_vars
====
